---- MODULE Spec2Model ----
(***************************************************************************)
(* Model of the DevSkill tracker extension.                                *)
(*                                                                         *)
(*   - TrackingService (src/src/services/TrackingService.ts): the paste    *)
(*     classifier detectPaste and the event handlers that update the       *)
(*     per-file and per-session counters.                                  *)
(*   - CodeFeatureExtractor.extractBasicMetrics                            *)
(*     (src/src/services/SkillAnalysisService.ts): the line classifier.    *)
(*                                                                         *)
(*   - SkillAnalysisService.analyzeSkill and                               *)
(*     CodeFeatureExtractor.shouldAnalyze (same file).                     *)
(*                                                                         *)
(* Seven specifications share the variables:                                *)
(*   Spec        the tracker as a state machine of its handlers            *)
(*   SpecDetect  detectPaste applied to inputs drawn by InitDetect         *)
(*   SpecBasic   the loop of extractBasicMetrics over a text drawn line    *)
(*               by line                                                   *)
(*   SpecSkill   analyzeSkill over file metrics drawn file by file         *)
(*   SpecGate    shouldAnalyze applied to inputs drawn by InitGate         *)
(*   SpecComplexity  extractComplexityMetrics over lines drawn one by one  *)
(*   SpecStructure   extractStructuralMetrics over lines drawn one by one  *)
(*                                                                         *)
(* The tracker is constructed over empty storage (loadState finds no       *)
(* events, no session and no file metrics).  saveState hands the events,   *)
(* the session and the file metrics to StorageService; the stored copies   *)
(* are not part of the state modelled here.  A handler reads Date.now()    *)
(* once: the calls to Date.now() within one handler return the same        *)
(* millisecond.                                                            *)
(***************************************************************************)
EXTENDS Integers, Sequences, FiniteSets, TLC

VARIABLES
    \* ---- TrackingService fields (TrackingService.ts:31-41) ----
    running,             \* this.running
    session,             \* this.session (NoSession for null)
    lastActivity,        \* this.lastActivity
    keystrokeCount,      \* this.keystrokeCount
    events,              \* this.events
    fileMetrics,         \* this.fileMetrics (a function on the tracked paths)
    updateTimer,         \* this.updateTimer is set
    currentFile,         \* this.currentFile (NoFile for null)
    lastTextChangeTime,  \* this.lastTextChangeTime
    \* ---- environment of the tracker ----
    now,                 \* the value Date.now() returns
    nextId,              \* the next fresh session id of generateUUID()
    calls,               \* number of handler calls so far
    change,              \* locals of the last handleTextChange call that
                         \* passed the early returns (NoChange before any)
    analysis,            \* arguments of the last CodeFeatureExtractor.extract
                         \* call of analyzeFile (NoExtract before any)
    \* ---- StorageService: context.globalState ----
    stored,              \* the values under the keys devskill.events,
                         \* devskill.session and devskill.fileMetrics
    pendSession,         \* saveState calls suspended before saveSession
    pendMetrics,         \* saveState calls suspended before saveFileMetrics
    clearPc,             \* position of the clear-data command:
                         \* "idle" | "session" | "metrics" | "queue"
    clearTime,           \* Date.now() when clearAll was last called (0: never)
    \* ---- one call of detectPaste (SpecDetect) ----
    dpArgs,              \* [charactersAdded, timeSinceLastChange, linesAdded]
    dpPc,                \* "call" before detectPaste returns, "done" after
    dpResult,            \* the boolean detectPaste returned
    \* ---- one call of extractBasicMetrics (SpecBasic) ----
    bmLangKey,           \* langKey
    bmPc,                \* "idle" | "loop" | "done"
    bmLines,             \* number of elements of `lines` consumed so far
    bmBlank,             \* blankLines
    bmComment,           \* commentLines
    bmInBlock,           \* inBlockComment
    bmLast,              \* what the tests of the last iteration found in
                         \* its line (NoLine before the first)
    bmResult,            \* the returned record (NoResult before return)
    \* ---- one call of analyzeSkill (SpecSkill) ----
    skPc,                \* "idle" | "fold" | "done"
    skActive,            \* totalActiveTime
    skIdle,              \* totalIdleTime
    skFiles,             \* number of files of fileMetrics folded so far
    skSums,              \* the sums of extractBehavioralMetrics so far
    skDist,              \* languageDistribution so far, in key order
    skResult,            \* the returned SkillAnalysisResult
    \* ---- one call of shouldAnalyze (SpecGate) ----
    gatePc,              \* "idle" | "call" | "done"
    gatePath,            \* filePath
    gateLength,          \* codeLength
    gateResult,          \* the boolean shouldAnalyze returned
    \* ---- one call of extractComplexityMetrics (SpecComplexity) ----
    cxPc,                \* "idle" | "loop" | "done"
    cxInput,             \* the elements of `lines` consumed so far
    cxComplexity,        \* complexity
    cxCurrent,           \* currentNesting
    cxMax,               \* maxNesting
    cxResult,            \* the returned record
    \* ---- one call of extractStructuralMetrics (SpecStructure) ----
    stPc,                \* "idle" | "loop" | "done"
    stInput,             \* the elements of `lines` consumed so far
    stTabCount,          \* tabCount
    stSpaceCount,        \* spaceCount
    stIndentSizes,       \* indentSizes
    stResult,            \* the returned record
    \* ---- AuthService (SpecAuth) ----
    isAuthenticated,     \* this.authState.isAuthenticated
    authUser,            \* this.authState.user is set
    secretToken,         \* context.secrets holds devskill.firebase.token
    secretRefreshToken,  \* context.secrets holds devskill.firebase.refreshToken
    storedUser,          \* globalState holds devskill.firebase.user
    tokenRefreshTimer,   \* the timeout of this.tokenRefreshTimer is pending
    signInPc,            \* position of signInWithEmail: "idle" | "fetch" |
                         \* "storeRefresh" | "storeUser" | "finish"
    signOutPc,           \* position of the signOut command: "idle" |
                         \* "deleteRefresh" | "clearUser" | "finish"
    refreshPc,           \* position of refreshToken: "idle" | "get" | "fetch" |
                         \* "storeRefresh" | "finish", and inside the signOut
                         \* of its catch "deleteRefresh" | "clearUser" |
                         \* "signedOut"
    refreshRead,         \* the local refreshToken of refreshToken is set
    signOutDone,         \* a signOut has completed and no sign-in has
                         \* succeeded since
    signInApplied        \* handleSuccessfulAuth has run a step since the
                         \* latest signOut began

storageVars == <<stored, pendSession, pendMetrics, clearPc, clearTime>>
trackerVars == <<running, session, lastActivity, keystrokeCount, events,
                 fileMetrics, updateTimer, currentFile, lastTextChangeTime,
                 now, nextId, calls, change, analysis, storageVars>>
detectVars  == <<dpArgs, dpPc, dpResult>>
basicVars   == <<bmLangKey, bmPc, bmLines, bmBlank, bmComment,
                 bmInBlock, bmLast, bmResult>>
skillVars   == <<skPc, skActive, skIdle, skFiles, skSums, skDist, skResult>>
gateVars    == <<gatePc, gatePath, gateLength, gateResult>>
complexVars == <<cxPc, cxInput, cxComplexity, cxCurrent, cxMax, cxResult>>
structVars  == <<stPc, stInput, stTabCount, stSpaceCount, stIndentSizes, stResult>>
\* What no handler of the tracker touches.
authVars == <<isAuthenticated, authUser, secretToken, secretRefreshToken,
              storedUser, tokenRefreshTimer, signInPc, signOutPc, refreshPc,
              refreshRead, signOutDone, signInApplied>>
otherVars == <<detectVars, basicVars, skillVars, gateVars, complexVars, structVars,
               authVars>>
vars == <<trackerVars, detectVars, basicVars, skillVars, gateVars, complexVars,
          structVars, authVars>>

(***************************************************************************)
(* detectPaste                                                             *)
(***************************************************************************)

\* detectPaste with the first comparison inverted (>= 30 returns typing).
detectPaste_invertedSmall(charactersAdded, timeSinceLastChange, linesAdded) ==
    IF charactersAdded >= 30 THEN FALSE
    ELSE IF linesAdded >= 3 /\ timeSinceLastChange < 50 THEN TRUE
    ELSE IF charactersAdded > 300 THEN TRUE
    ELSE IF charactersAdded > 150 /\ timeSinceLastChange < 20 THEN TRUE
    ELSE IF charactersAdded > 100 /\ timeSinceLastChange < 10 THEN TRUE
    ELSE IF charactersAdded > 50 /\ timeSinceLastChange < 5 THEN TRUE
    ELSE FALSE

\* detectPaste with the multi-line rule tested before the small-change rule.
detectPaste_multiLineFirst(charactersAdded, timeSinceLastChange, linesAdded) ==
    IF linesAdded >= 3 /\ timeSinceLastChange < 50 THEN TRUE
    ELSE IF charactersAdded <= 30 THEN FALSE
    ELSE IF charactersAdded > 300 THEN TRUE
    ELSE IF charactersAdded > 150 /\ timeSinceLastChange < 20 THEN TRUE
    ELSE IF charactersAdded > 100 /\ timeSinceLastChange < 10 THEN TRUE
    ELSE IF charactersAdded > 50 /\ timeSinceLastChange < 5 THEN TRUE
    ELSE FALSE

\* detectPaste without the "very large insertion" rule.
detectPaste_noLargeRule(charactersAdded, timeSinceLastChange, linesAdded) ==
    IF charactersAdded <= 30 THEN FALSE
    ELSE IF linesAdded >= 3 /\ timeSinceLastChange < 50 THEN TRUE
    ELSE IF charactersAdded > 150 /\ timeSinceLastChange < 20 THEN TRUE
    ELSE IF charactersAdded > 100 /\ timeSinceLastChange < 10 THEN TRUE
    ELSE IF charactersAdded > 50 /\ timeSinceLastChange < 5 THEN TRUE
    ELSE FALSE

\* detectPaste whose multi-line rule ignores the gap.
detectPaste_multiLineAnyGap(charactersAdded, timeSinceLastChange, linesAdded) ==
    IF charactersAdded <= 30 THEN FALSE
    ELSE IF linesAdded >= 3 THEN TRUE
    ELSE IF charactersAdded > 300 THEN TRUE
    ELSE IF charactersAdded > 150 /\ timeSinceLastChange < 20 THEN TRUE
    ELSE IF charactersAdded > 100 /\ timeSinceLastChange < 10 THEN TRUE
    ELSE IF charactersAdded > 50 /\ timeSinceLastChange < 5 THEN TRUE
    ELSE FALSE

\* detectPaste whose 150-character rule starts at 100 characters.
detectPaste_rule4At100(charactersAdded, timeSinceLastChange, linesAdded) ==
    IF charactersAdded <= 30 THEN FALSE
    ELSE IF linesAdded >= 3 /\ timeSinceLastChange < 50 THEN TRUE
    ELSE IF charactersAdded > 300 THEN TRUE
    ELSE IF charactersAdded > 100 /\ timeSinceLastChange < 20 THEN TRUE
    ELSE IF charactersAdded > 100 /\ timeSinceLastChange < 10 THEN TRUE
    ELSE IF charactersAdded > 50 /\ timeSinceLastChange < 5 THEN TRUE
    ELSE FALSE

\* detectPaste whose last rule uses >= 50.
detectPaste_rule6Inclusive(charactersAdded, timeSinceLastChange, linesAdded) ==
    IF charactersAdded <= 30 THEN FALSE
    ELSE IF linesAdded >= 3 /\ timeSinceLastChange < 50 THEN TRUE
    ELSE IF charactersAdded > 300 THEN TRUE
    ELSE IF charactersAdded > 150 /\ timeSinceLastChange < 20 THEN TRUE
    ELSE IF charactersAdded > 100 /\ timeSinceLastChange < 10 THEN TRUE
    ELSE IF charactersAdded >= 50 /\ timeSinceLastChange < 5 THEN TRUE
    ELSE FALSE

\* TrackingService.detectPaste: TRUE for paste, FALSE for typing.
detectPaste(charactersAdded, timeSinceLastChange, linesAdded) ==
    IF charactersAdded <= 30 THEN FALSE
    ELSE IF linesAdded >= 3 /\ timeSinceLastChange < 50 THEN TRUE
    ELSE IF charactersAdded > 300 THEN TRUE
    ELSE IF charactersAdded > 150 /\ timeSinceLastChange < 20 THEN TRUE
    ELSE IF charactersAdded > 100 /\ timeSinceLastChange < 10 THEN TRUE
    ELSE IF charactersAdded > 50 /\ timeSinceLastChange < 5 THEN TRUE
    ELSE FALSE

(***************************************************************************)
(* Bounds and inputs of the tracker                                        *)
(***************************************************************************)

\* Number of handler calls explored in one run.
MaxCalls == 4

\* config.getTracking().idleThresholdMs (default of tracking.idleThreshold).
IdleThresholdMs == 60000

\* Milliseconds between the previous handler call and a text change: below
\* every paste gap, and above every paste gap.
EditAdvances == {3, 100}

\* Milliseconds between the previous handler call and a tick of the 1-second
\* timer: one period, or longer than the idle threshold.
TickAdvances == {1000, IdleThresholdMs + 1000}

\* Milliseconds between the previous handler call and any other call.
OtherAdvances == {100}

\* Documents of the editor.  The first two are files on disk; the last one
\* is an output channel, which shouldTrackDocument rejects.
Files == {"a.ts", "b.py"}
Docs == Files \cup {"extension-output-1"}

\* The change events the editor delivers, as the totals handleTextChange sums
\* over e.contentChanges: <<totalAdded, totalDeleted, linesAdded, linesDeleted>>.
\* An empty change, a deletion, a keystroke, a medium multi-line insertion and
\* a large insertion.
DeltaShapes ==
    { [totalAdded |-> 0,   totalDeleted |-> 0, linesAdded |-> 0,  linesDeleted |-> 0],
      [totalAdded |-> 0,   totalDeleted |-> 5, linesAdded |-> 0,  linesDeleted |-> 1],
      [totalAdded |-> 1,   totalDeleted |-> 0, linesAdded |-> 0,  linesDeleted |-> 0],
      [totalAdded |-> 60,  totalDeleted |-> 0, linesAdded |-> 3,  linesDeleted |-> 0],
      [totalAdded |-> 400, totalDeleted |-> 0, linesAdded |-> 10, linesDeleted |-> 0] }

NoSession == [id |-> 0]
NoFile == "null"
NoChange == [file |-> NoFile]
NoExtract == [file |-> NoFile]

(***************************************************************************)
(* Helpers of the tracker                                                  *)
(***************************************************************************)

\* LanguageDetector.getExtension: the text behind the last dot of the path,
\* in lower case, and "" when the path has no dot (filePath.match of
\* /\.([^.]+)$/), on the paths of the model.
getExtension(filePath) ==
    CASE filePath = "a.ts" -> "ts"
      [] filePath = "b.py" -> "py"
      [] filePath = "c.json" -> "json"
      [] filePath = "d.md" -> "md"
      [] filePath = "e.xml" -> "xml"
      [] filePath = "f.yaml" -> "yaml"
      [] filePath = "g.toml" -> "toml"
      [] filePath = "h.ini" -> "ini"
      [] filePath = "i.txt" -> "txt"
      [] filePath = "j.log" -> "log"
      [] filePath = "k.xyz" -> "xyz"
      [] filePath = "M.TS" -> "ts"
      [] filePath = "n.go" -> "go"
      [] OTHER -> ""

\* EXTENSION_MAP['.' + extension] || 'Unknown', for the extensions of the
\* model.
extensionLanguage(extension) ==
    CASE extension = "ts" -> "TypeScript"
      [] extension = "py" -> "Python"
      [] extension = "go" -> "Go"
      [] extension = "json" -> "JSON"
      [] extension = "xml" -> "XML"
      [] extension = "yaml" -> "YAML"
      [] extension = "toml" -> "TOML"
      [] extension = "ini" -> "INI"
      [] extension = "md" -> "Markdown"
      [] extension = "txt" -> "Plain Text"
      [] extension = "log" -> "Log File"
      [] OTHER -> "Unknown"

\* LanguageDetector.detectLanguage
detectLanguage(filePath) ==
    IF getExtension(filePath) = "" THEN "Unknown"
    ELSE extensionLanguage(getExtension(filePath))

\* TrackingService.shouldTrackDocument: only the 'file' scheme, and no path
\* of an output channel.
shouldTrackDocument(doc) ==
    /\ doc \in Files
    /\ doc # "extension-output-1"

RECURSIVE GCD(_, _)
GCD(a, b) == IF b = 0 THEN a ELSE GCD(b, a % b)

\* A JavaScript number that is a quotient of two naturals, kept as the reduced
\* fraction (two quotients are the same double when the fractions are equal).
Quotient(n, d) ==
    LET g == GCD(n, d) IN [num |-> n \div g, den |-> d \div g]
Zero == [num |-> 0, den |-> 1]

\* The ratio computed from the paste count alone.
typingRatio_pasteOnly(keystrokes, pastes) ==
    IF pastes > 0 THEN Quotient(keystrokes, pastes) ELSE Zero

\* handleTextChange, "Calculate typing ratio".
typingRatio(keystrokes, pastes) ==
    LET total == keystrokes + pastes
    IN IF total > 0 THEN Quotient(keystrokes, total) ELSE Zero

\* The counter update that adds the inserted characters to the paste count.
classifyCounters_pasteChars(fm, isPaste, totalAdded) ==
    IF isPaste
    THEN [fm EXCEPT !.pasteCount = @ + totalAdded]
    ELSE [fm EXCEPT !.keystrokeCount = @ + totalAdded]

\* The counter update that counts every delta as a paste as well.
classifyCounters_pasteAlways(fm, isPaste, totalAdded) ==
    IF isPaste
    THEN [fm EXCEPT !.pasteCount = @ + 1]
    ELSE [fm EXCEPT !.pasteCount = @ + 1, !.keystrokeCount = @ + totalAdded]

\* handleTextChange, "Update file metrics": the file's counter of the class.
classifyCounters(fm, isPaste, totalAdded) ==
    IF isPaste
    THEN [fm EXCEPT !.pasteCount = @ + 1]
    ELSE [fm EXCEPT !.keystrokeCount = @ + totalAdded]

\* The record ensureFileMetrics creates (without averageEditSize and
\* idleTimeMs, which nothing writes afterwards; lastAnalysisTimestamp is 0
\* while the field is absent).
newFileMetrics(file, language, t) ==
    [ file |-> file, language |-> language, firstSeen |-> t, lastActive |-> t,
      keystrokeCount |-> 0, pasteCount |-> 0, typingToTotalRatio |-> Zero,
      linesAdded |-> 0, linesDeleted |-> 0, editCount |-> 0,
      activeTimeMs |-> 0, totalTimeMs |-> 0,
      switchToCount |-> 0, switchFromCount |-> 0, openCount |-> 0,
      codeAnalysisCount |-> 0, lastAnalysisTimestamp |-> 0 ]

Includes(seq, x) == \E i \in 1..Len(seq) : seq[i] = x

\* ensureFileMetrics that creates the record anew on every call.
ensuredMetrics_alwaysNew(fms, file, language, t) ==
    (file :> newFileMetrics(file, language, t)) @@ fms

\* ensureFileMetrics: the file metrics after the call.
ensuredMetrics(fms, file, language, t) ==
    IF file \in DOMAIN fms THEN fms
    ELSE (file :> newFileMetrics(file, language, t)) @@ fms

\* ensureFileMetrics: the session after the call ("Add to session", only when
\* the record was created).
ensuredSession(fms, s, file, language) ==
    IF file \in DOMAIN fms \/ s = NoSession THEN s
    ELSE [s EXCEPT
            !.filesEdited = IF Includes(@, file) THEN @ ELSE Append(@, file),
            !.languagesUsed = IF Includes(@, language) THEN @ ELSE Append(@, language)]

\* updateFileActiveTime that leaves lastActive alone.
updateFileActiveTime_keepsLastActive(fms, file, t) ==
    IF file \notin DOMAIN fms THEN fms
    ELSE LET elapsed == t - fms[file].lastActive
         IN [fms EXCEPT
               ![file].activeTimeMs = IF elapsed < IdleThresholdMs THEN @ + elapsed ELSE @,
               ![file].totalTimeMs = @ + elapsed]

\* updateFileActiveTime.
updateFileActiveTime(fms, file, t) ==
    IF file \notin DOMAIN fms THEN fms
    ELSE LET elapsed == t - fms[file].lastActive
         IN [fms EXCEPT
               ![file].activeTimeMs = IF elapsed < IdleThresholdMs THEN @ + elapsed ELSE @,
               ![file].lastActive = t,
               ![file].totalTimeMs = @ + elapsed]

\* recordEvent: the event list with the event appended.
recordEvent(evs, s, t, type, file) ==
    Append(evs, [type |-> type, timestamp |-> t, file |-> file,
                 sessionId |-> IF s = NoSession THEN 0 ELSE s.id])

\* markActivity: the event list after the call (IDLE_END when the last event
\* is IDLE_START).
markActivityEvents(evs, s, t) ==
    IF Len(evs) > 0 /\ evs[Len(evs)].type = "idle_start"
    THEN recordEvent(evs, s, t, "idle_end", NoFile)
    ELSE evs

\* One more handler call, d milliseconds after the previous one.
Call(d) ==
    /\ calls < MaxCalls
    /\ calls' = calls + 1
    /\ now' = now + d

\* StorageService.saveEvents: the array written under devskill.events (the
\* last MAX_EVENTS elements).
trimmedEvents(evs) ==
    IF Len(evs) > 10000 THEN SubSeq(evs, Len(evs) - 9999, Len(evs)) ELSE evs

\* The values of globalState.get for the three keys with nothing stored.
EmptyStored == [events |-> <<>>, session |-> NoSession, fileMetrics |-> <<>>]

\* saveState(), up to its first await: saveEvents has written the events;
\* the call is suspended before its saveSession.
SaveState(evs) ==
    /\ stored' = [stored EXCEPT !.events = trimmedEvents(evs)]
    /\ pendSession' = pendSession + 1
    /\ UNCHANGED <<pendMetrics, clearPc, clearTime>>

(***************************************************************************)
(* Handlers of the tracker                                                 *)
(***************************************************************************)

InitTracker ==
    /\ running = FALSE
    /\ session = NoSession
    /\ lastActivity = 0
    /\ keystrokeCount = 0
    /\ events = <<>>
    /\ fileMetrics = [f \in {} |-> 0]
    /\ updateTimer = FALSE
    /\ currentFile = NoFile
    /\ lastTextChangeTime = 0
    \* Date.now() at construction: the epoch time in milliseconds, far above
    \* every threshold (the first gap is now - 0)
    /\ now = 100000
    /\ nextId = 1
    /\ calls = 0
    /\ change = NoChange
    /\ analysis = NoExtract
    /\ stored = EmptyStored
    /\ pendSession = 0
    /\ pendMetrics = 0
    /\ clearPc = "idle"
    /\ clearTime = 0

\* start() without the early return for a tracker that is running.
Start_restarts(d) ==
    /\ Call(d)
    /\ running' = TRUE
    /\ session' = [ id |-> nextId, startTime |-> now', endTime |-> 0,
                    totalDuration |-> 0, totalKeystrokes |-> 0,
                    totalPastes |-> 0, totalEdits |-> 0,
                    filesEdited |-> <<>>, languagesUsed |-> <<>>,
                    codeAnalysesPerformed |-> 0, status |-> "active" ]
    /\ nextId' = nextId + 1
    /\ lastActivity' = now'
    /\ keystrokeCount' = 0
    /\ events' = recordEvent(events, session', now', "session_start", NoFile)
    /\ updateTimer' = TRUE
    /\ SaveState(events')
    /\ UNCHANGED <<analysis, fileMetrics, currentFile, lastTextChangeTime, change>>

\* start()
Start(d) ==
    /\ Call(d)
    /\ IF running
       THEN UNCHANGED <<running, session, lastActivity, keystrokeCount, events,
                        updateTimer, nextId, storageVars>>
       ELSE /\ running' = TRUE
            /\ session' = [ id |-> nextId, startTime |-> now', endTime |-> 0,
                            totalDuration |-> 0, totalKeystrokes |-> 0,
                            totalPastes |-> 0, totalEdits |-> 0,
                            filesEdited |-> <<>>, languagesUsed |-> <<>>,
                            codeAnalysesPerformed |-> 0, status |-> "active" ]
            /\ nextId' = nextId + 1
            /\ lastActivity' = now'
            /\ keystrokeCount' = 0
            /\ events' = recordEvent(events, session', now', "session_start", NoFile)
            /\ updateTimer' = TRUE
            /\ SaveState(events')
    /\ UNCHANGED <<analysis, fileMetrics, currentFile, lastTextChangeTime, change>>

\* stop()
Stop(d) ==
    /\ Call(d)
    /\ IF ~running
       THEN UNCHANGED <<running, session, events, updateTimer, storageVars>>
       ELSE /\ running' = FALSE
            /\ session' = IF session = NoSession THEN session
                          ELSE [session EXCEPT
                                  !.endTime = now',
                                  !.totalDuration = now' - session.startTime,
                                  !.status = "stopped",
                                  !.totalKeystrokes = keystrokeCount]
            /\ events' = recordEvent(events, session', now', "session_stop", NoFile)
            /\ updateTimer' = FALSE
            /\ SaveState(events')
    /\ UNCHANGED <<analysis, lastActivity, keystrokeCount, fileMetrics, currentFile,
                   lastTextChangeTime, nextId, change>>

\* onDidChangeTextDocument -> handleTextChange(e)
HandleTextChange(doc, delta, d) ==
    /\ running
    /\ Call(d)
    /\ IF \/ ~shouldTrackDocument(doc)
          \/ (delta.totalAdded = 0 /\ delta.totalDeleted = 0)
       THEN UNCHANGED <<session, lastActivity, keystrokeCount, events,
                        fileMetrics, lastTextChangeTime, change>>
       ELSE LET file == doc
                language == detectLanguage(file)
                timeSinceLastChange == now' - lastTextChangeTime
                isPaste == detectPaste(delta.totalAdded, timeSinceLastChange,
                                       delta.linesAdded)
                fm0 == ensuredMetrics(fileMetrics, file, language, now')
                s0 == ensuredSession(fileMetrics, session, file, language)
                c == classifyCounters(fm0[file], isPaste, delta.totalAdded)
                fm1 == [fm0 EXCEPT ![file] =
                          [c EXCEPT
                             !.editCount = @ + 1,
                             !.linesAdded = @ + delta.linesAdded,
                             !.linesDeleted = @ + delta.linesDeleted,
                             !.typingToTotalRatio =
                                 typingRatio(c.keystrokeCount, c.pasteCount)]]
                ev1 == recordEvent(events, s0, now',
                                   IF isPaste THEN "paste" ELSE "keystroke", file)
            IN /\ session' = [s0 EXCEPT
                                !.totalPastes = IF isPaste THEN @ + 1 ELSE @,
                                !.totalEdits = @ + 1]
               /\ keystrokeCount' = IF isPaste THEN keystrokeCount
                                    ELSE keystrokeCount + delta.totalAdded
               /\ fileMetrics' = updateFileActiveTime(fm1, file, now')
               /\ lastTextChangeTime' = now'
               /\ lastActivity' = now'
               /\ events' = markActivityEvents(ev1, s0, now')
               /\ change' = [ file |-> file, now |-> now',
                              totalAdded |-> delta.totalAdded,
                              totalDeleted |-> delta.totalDeleted,
                              linesAdded |-> delta.linesAdded,
                              linesDeleted |-> delta.linesDeleted,
                              timeSinceLastChange |-> timeSinceLastChange,
                              isPaste |-> isPaste ]
    /\ UNCHANGED storageVars
    /\ UNCHANGED <<analysis, running, updateTimer, currentFile, nextId>>

\* handleEditorChange that does not count the switch away from the current
\* file.
HandleEditorChange_noSwitchFrom(doc, d) ==
    /\ running
    /\ Call(d)
    /\ IF doc # NoFile /\ ~shouldTrackDocument(doc)
       THEN UNCHANGED <<session, lastActivity, events, fileMetrics, currentFile>>
       ELSE LET file == doc
                language == detectLanguage(file)
                ev1 == recordEvent(events, session, now', "file_switch", file)
                fm0 == fileMetrics
                fm1 == IF file # NoFile
                       THEN [ensuredMetrics(fm0, file, language, now')
                               EXCEPT ![file].switchToCount = @ + 1]
                       ELSE fm0
            IN /\ fileMetrics' = fm1
               /\ session' = IF file # NoFile
                             THEN ensuredSession(fm0, session, file, language)
                             ELSE session
               /\ currentFile' = file
               /\ lastActivity' = now'
               /\ events' = markActivityEvents(ev1, session', now')
    /\ UNCHANGED storageVars
    /\ UNCHANGED <<analysis, running, keystrokeCount, updateTimer, lastTextChangeTime,
                   nextId, change>>

\* onDidChangeActiveTextEditor -> handleEditorChange(editor); NoFile stands
\* for an undefined editor.
HandleEditorChange(doc, d) ==
    /\ running
    /\ Call(d)
    /\ IF doc # NoFile /\ ~shouldTrackDocument(doc)
       THEN UNCHANGED <<session, lastActivity, events, fileMetrics, currentFile>>
       ELSE LET file == doc
                language == detectLanguage(file)
                ev1 == recordEvent(events, session, now', "file_switch", file)
                fm0 == IF currentFile # NoFile /\ currentFile \in DOMAIN fileMetrics
                       THEN [fileMetrics EXCEPT ![currentFile].switchFromCount = @ + 1]
                       ELSE fileMetrics
                fm1 == IF file # NoFile
                       THEN [ensuredMetrics(fm0, file, language, now')
                               EXCEPT ![file].switchToCount = @ + 1]
                       ELSE fm0
            IN /\ fileMetrics' = fm1
               /\ session' = IF file # NoFile
                             THEN ensuredSession(fm0, session, file, language)
                             ELSE session
               /\ currentFile' = file
               /\ lastActivity' = now'
               /\ events' = markActivityEvents(ev1, session', now')
    /\ UNCHANGED storageVars
    /\ UNCHANGED <<analysis, running, keystrokeCount, updateTimer, lastTextChangeTime,
                   nextId, change>>

\* onDidOpenTextDocument -> handleDocumentOpen(doc)
HandleDocumentOpen(doc, d) ==
    /\ running
    /\ Call(d)
    /\ IF ~shouldTrackDocument(doc)
       THEN UNCHANGED <<session, lastActivity, events, fileMetrics>>
       ELSE LET file == doc
                language == detectLanguage(file)
                fm0 == ensuredMetrics(fileMetrics, file, language, now')
                s0 == ensuredSession(fileMetrics, session, file, language)
                ev1 == recordEvent(events, s0, now', "file_open", file)
            IN /\ fileMetrics' = [fm0 EXCEPT ![file].openCount = @ + 1]
               /\ session' = s0
               /\ lastActivity' = now'
               /\ events' = markActivityEvents(ev1, s0, now')
    /\ UNCHANGED storageVars
    /\ UNCHANGED <<analysis, running, keystrokeCount, updateTimer, currentFile,
                   lastTextChangeTime, nextId, change>>

\* onDidCloseTextDocument -> handleDocumentClose(doc)
HandleDocumentClose(doc, d) ==
    /\ running
    /\ Call(d)
    /\ IF ~shouldTrackDocument(doc)
       THEN UNCHANGED <<lastActivity, events>>
       ELSE LET ev1 == recordEvent(events, session, now', "file_close", doc)
            IN /\ lastActivity' = now'
               /\ events' = markActivityEvents(ev1, session, now')
    /\ UNCHANGED storageVars
    /\ UNCHANGED <<analysis, running, session, keystrokeCount, fileMetrics, updateTimer,
                   currentFile, lastTextChangeTime, nextId, change>>

\* onDidChangeWindowState -> handleWindowStateChange(state)
HandleWindowStateChange(focused, d) ==
    /\ running
    /\ Call(d)
    /\ LET ev1 == recordEvent(events, session, now',
                              IF focused THEN "window_focus" ELSE "window_blur",
                              NoFile)
       IN IF focused
          THEN /\ lastActivity' = now'
               /\ events' = markActivityEvents(ev1, session, now')
          ELSE /\ events' = ev1
               /\ UNCHANGED lastActivity
    /\ UNCHANGED storageVars
    /\ UNCHANGED <<analysis, running, session, keystrokeCount, fileMetrics, updateTimer,
                   currentFile, lastTextChangeTime, nextId, change>>

\* tick(), called by the interval timer start() sets and stop() clears.
Tick(d) ==
    /\ updateTimer
    /\ Call(d)
    /\ IF ~running \/ session = NoSession
       THEN UNCHANGED <<session, events, storageVars>>
       ELSE LET idleMs == now' - lastActivity
            IN /\ events' =
                     IF /\ idleMs > IdleThresholdMs
                        /\ (Len(events) = 0 \/ events[Len(events)].type # "idle_start")
                     THEN recordEvent(events, session, now', "idle_start", NoFile)
                     ELSE events
               /\ session' = [session EXCEPT !.totalDuration = now' - session.startTime]
               /\ IF Len(events') % 10 = 0
                  THEN SaveState(events')
                  ELSE UNCHANGED storageVars
    /\ UNCHANGED <<analysis, running, lastActivity, keystrokeCount, fileMetrics, updateTimer,
                   currentFile, lastTextChangeTime, nextId, change>>

(***************************************************************************)
(* One call of detectPaste                                                 *)
(***************************************************************************)

\* Largest charactersAdded, gap and linesAdded drawn; the gaps also include
\* one of ten seconds, far beyond every threshold.
MaxChars == 400
MaxGap == 100
MaxLinesAdded == 5

GapValues == (0..MaxGap) \cup {10000}

NoArgs == [charactersAdded |-> 0, timeSinceLastChange |-> 0, linesAdded |-> 0]

InitDetectVars ==
    /\ dpArgs = NoArgs
    /\ dpPc = "idle"
    /\ dpResult = FALSE

\* The caller's arguments, before the call.
InitDetect ==
    /\ dpArgs \in [charactersAdded : 0..MaxChars,
                   timeSinceLastChange : GapValues,
                   linesAdded : 0..MaxLinesAdded]
    /\ dpPc = "call"
    /\ dpResult = FALSE

\* this.detectPaste(totalAdded, timeSinceLastChange, linesAdded) returns.
DetectPasteCall ==
    /\ dpPc = "call"
    /\ dpPc' = "done"
    /\ dpResult' = detectPaste(dpArgs.charactersAdded, dpArgs.timeSinceLastChange,
                               dpArgs.linesAdded)
    /\ UNCHANGED <<dpArgs, trackerVars, authVars, basicVars, skillVars, gateVars,
                   complexVars, structVars>>

(***************************************************************************)
(* CodeFeatureExtractor.extractBasicMetrics                                *)
(*                                                                         *)
(* A line is a sequence of one-character strings.  `lines` is the result   *)
(* of code.split('\n'): at least one line, none containing a newline.  The *)
(* loop draws the next element of `lines` when it reaches it.              *)
(***************************************************************************)

\* Longest line and largest number of lines drawn.
MaxLineLen == 6
MaxLines == 3

\* The language keys looked up: three with an entry of their own in
\* COMMENT_PATTERNS, "default", and one ("java") without an entry.
LangKeys == {"default", "python", "css", "shell", "java"}

\* The characters the lines of a language are drawn from: the characters of
\* its comment markers, a blank and one other character.
Alphabet(langKey) ==
    CASE langKey = "python" -> {" ", "#", "'", "x"}
      [] langKey = "shell"  -> {" ", "#", ":", "'"}
      [] OTHER              -> {" ", "/", "*", "x"}

LinesOf(langKey) == UNION { [1..k -> Alphabet(langKey)] : k \in 0..MaxLineLen }

\* COMMENT_PATTERNS[langKey] || COMMENT_PATTERNS.default.  singleLine holds the
\* text each /^\s*text/ pattern looks for; blockStart and blockEnd the text
\* the unanchored patterns look for.
CommentPatterns(langKey) ==
    CASE langKey = "python" ->
           [singleLine |-> {<<"#">>}, blockStart |-> <<"'", "'", "'">>,
            blockEnd |-> <<"'", "'", "'">>]
      [] langKey = "css" ->
           [singleLine |-> {}, blockStart |-> <<"/", "*">>, blockEnd |-> <<"*", "/">>]
      [] langKey = "shell" ->
           [singleLine |-> {<<"#">>}, blockStart |-> <<":", " ", "'">>,
            blockEnd |-> <<"'">>]
      [] OTHER ->
           [singleLine |-> {<<"/", "/">>}, blockStart |-> <<"/", "*">>,
            blockEnd |-> <<"*", "/">>]

IsSpace(c) == c = " "

\* String.prototype.trim
RECURSIVE TrimStart(_)
TrimStart(str) ==
    IF Len(str) > 0 /\ IsSpace(str[1]) THEN TrimStart(Tail(str)) ELSE str

RECURSIVE TrimEnd(_)
TrimEnd(str) ==
    IF Len(str) > 0 /\ IsSpace(str[Len(str)])
    THEN TrimEnd(SubSeq(str, 1, Len(str) - 1)) ELSE str

trim(str) == TrimEnd(TrimStart(str))

\* The positions at which text occurs in str.
Occurrences(str, text) ==
    { i \in 1..(Len(str) - Len(text) + 1) : SubSeq(str, i, i + Len(text) - 1) = text }

\* /text/.test(str)
test(text, str) == Occurrences(str, text) # {}

\* /^\s*text/.test(str)
testAtStart(text, str) ==
    LET rest == TrimStart(str)
    IN Len(rest) >= Len(text) /\ SubSeq(rest, 1, Len(text)) = text

\* str.replace(/text/, ''): the first occurrence removed.
replace(str, text) ==
    IF ~test(text, str) THEN str
    ELSE LET i == CHOOSE j \in Occurrences(str, text) :
                      \A k \in Occurrences(str, text) : j <= k
         IN SubSeq(str, 1, i - 1) \o SubSeq(str, i + Len(text), Len(str))

\* One iteration of the loop in which a line that starts a block comment
\* goes on to the single-line test (no `continue` after the block-start
\* branch).
classifyLine_fallThrough(patterns, line, inBlockComment) ==
    LET trimmed == trim(line)
        single == \E p \in patterns.singleLine : testAtStart(p, trimmed)
    IN IF Len(trimmed) = 0
       THEN [blank |-> 1, comment |-> 0, inBlockComment |-> inBlockComment]
       ELSE IF inBlockComment
       THEN [blank |-> 0, comment |-> 1,
             inBlockComment |-> ~test(patterns.blockEnd, trimmed)]
       ELSE IF test(patterns.blockStart, trimmed)
       THEN [blank |-> 0, comment |-> IF single THEN 2 ELSE 1,
             inBlockComment |->
                 ~test(patterns.blockEnd, replace(trimmed, patterns.blockStart))]
       ELSE IF single
       THEN [blank |-> 0, comment |-> 1, inBlockComment |-> FALSE]
       ELSE [blank |-> 0, comment |-> 0, inBlockComment |-> FALSE]

\* One iteration of the loop in which every line that starts a block comment
\* sets the flag, also when the comment is closed on the same line.
classifyLine_flagOnEveryStart(patterns, line, inBlockComment) ==
    LET trimmed == trim(line)
    IN IF Len(trimmed) = 0
       THEN [blank |-> 1, comment |-> 0, inBlockComment |-> inBlockComment]
       ELSE IF inBlockComment
       THEN [blank |-> 0, comment |-> 1,
             inBlockComment |-> ~test(patterns.blockEnd, trimmed)]
       ELSE IF test(patterns.blockStart, trimmed)
       THEN [blank |-> 0, comment |-> 1, inBlockComment |-> TRUE]
       ELSE IF \E p \in patterns.singleLine : testAtStart(p, trimmed)
       THEN [blank |-> 0, comment |-> 1, inBlockComment |-> FALSE]
       ELSE [blank |-> 0, comment |-> 0, inBlockComment |-> FALSE]

\* One iteration of the loop in which the block-comment state is tested
\* before the blank line: a blank line inside a block counts as comment.
classifyLine_blockBeforeBlank(patterns, line, inBlockComment) ==
    LET trimmed == trim(line)
    IN IF inBlockComment
       THEN [blank |-> 0, comment |-> 1,
             inBlockComment |-> ~test(patterns.blockEnd, trimmed)]
       ELSE IF Len(trimmed) = 0
       THEN [blank |-> 1, comment |-> 0, inBlockComment |-> inBlockComment]
       ELSE IF test(patterns.blockStart, trimmed)
       THEN [blank |-> 0, comment |-> 1,
             inBlockComment |->
                 ~test(patterns.blockEnd, replace(trimmed, patterns.blockStart))]
       ELSE IF \E p \in patterns.singleLine : testAtStart(p, trimmed)
       THEN [blank |-> 0, comment |-> 1, inBlockComment |-> FALSE]
       ELSE [blank |-> 0, comment |-> 0, inBlockComment |-> FALSE]

\* One iteration of the loop of extractBasicMetrics: what it adds to
\* blankLines and commentLines, and inBlockComment after it.
classifyLine(patterns, line, inBlockComment) ==
    LET trimmed == trim(line)
    IN IF Len(trimmed) = 0
       THEN [blank |-> 1, comment |-> 0, inBlockComment |-> inBlockComment]
       ELSE IF inBlockComment
       THEN [blank |-> 0, comment |-> 1,
             inBlockComment |-> ~test(patterns.blockEnd, trimmed)]
       ELSE IF test(patterns.blockStart, trimmed)
       THEN [blank |-> 0, comment |-> 1,
             inBlockComment |->
                 ~test(patterns.blockEnd, replace(trimmed, patterns.blockStart))]
       ELSE IF \E p \in patterns.singleLine : testAtStart(p, trimmed)
       THEN [blank |-> 0, comment |-> 1, inBlockComment |-> FALSE]
       ELSE [blank |-> 0, comment |-> 0, inBlockComment |-> FALSE]

Max(a, b) == IF a >= b THEN a ELSE b

\* The record extractBasicMetrics returns.
basicMetrics(totalLines, blankLines, commentLines) ==
    [ totalLines |-> totalLines,
      codeLines |-> Max(0, totalLines - blankLines - commentLines),
      commentLines |-> commentLines,
      blankLines |-> blankLines ]

NoResult == [totalLines |-> 0]

\* The outcome of each test the loop body can apply to a line: trimmed.length
\* === 0, blockStart.test(trimmed), blockEnd.test(trimmed),
\* blockEnd.test(trimmed.replace(blockStart, '')) and singleLine.some(...).
lineTests(patterns, line) ==
    LET trimmed == trim(line)
    IN [ blank |-> Len(trimmed) = 0,
         blockStart |-> test(patterns.blockStart, trimmed),
         blockEnd |-> test(patterns.blockEnd, trimmed),
         restBlockEnd |->
             test(patterns.blockEnd, replace(trimmed, patterns.blockStart)),
         singleLine |-> \E p \in patterns.singleLine : testAtStart(p, trimmed) ]

NoLine == [blank |-> FALSE, blockStart |-> FALSE, blockEnd |-> FALSE,
           restBlockEnd |-> FALSE, singleLine |-> FALSE]

InitBasicVars ==
    /\ bmLangKey = "default"
    /\ bmPc = "idle"
    /\ bmLines = 0
    /\ bmBlank = 0
    /\ bmComment = 0
    /\ bmInBlock = FALSE
    /\ bmLast = NoLine
    /\ bmResult = NoResult

\* extractBasicMetrics(lines, langKey) is entered.
InitBasic ==
    /\ bmLangKey \in LangKeys
    /\ bmPc = "loop"
    /\ bmLines = 0
    /\ bmBlank = 0
    /\ bmComment = 0
    /\ bmInBlock = FALSE
    /\ bmLast = NoLine
    /\ bmResult = NoResult

\* for (const line of lines) { ... }: one iteration, on the next line.
BasicMetricsLine(line) ==
    /\ bmPc = "loop"
    /\ bmLines < MaxLines
    /\ LET r == classifyLine(CommentPatterns(bmLangKey), line, bmInBlock)
       IN /\ bmBlank' = bmBlank + r.blank
          /\ bmComment' = bmComment + r.comment
          /\ bmInBlock' = r.inBlockComment
    /\ bmLast' = lineTests(CommentPatterns(bmLangKey), line)
    /\ bmLines' = bmLines + 1
    /\ UNCHANGED <<bmLangKey, bmPc, bmResult, trackerVars, authVars, detectVars,
                   skillVars, gateVars,
                   complexVars, structVars>>

\* The end of `lines` is reached: totalLines, codeLines and the return.
BasicMetricsReturn ==
    /\ bmPc = "loop"
    /\ bmLines >= 1
    /\ bmResult' = basicMetrics(bmLines, bmBlank, bmComment)
    /\ bmPc' = "done"
    /\ UNCHANGED <<bmLangKey, bmLines, bmBlank, bmComment, bmInBlock, bmLast,
                   trackerVars, authVars, detectVars, skillVars, gateVars,
                   complexVars, structVars>>

(***************************************************************************)
(* SkillAnalysisService.analyzeSkill                                       *)
(*                                                                         *)
(* extractBehavioralMetrics folds Object.values(fileMetrics), in insertion *)
(* order, into sums and a language table; the model draws the files one at *)
(* a time and keeps the sums and the table.  Numbers that are quotients    *)
(* are exact fractions.  averageTypingSpeed, averageFileActiveTime and     *)
(* fileSwitchCount of BehavioralMetrics, and the description texts of the  *)
(* scores and recommendations, are not modelled.                           *)
(***************************************************************************)

\* Largest number of files in fileMetrics.
MaxFiles == 6

\* The counters of one file: a file never edited, a file typed more than
\* pasted with lines only deleted, a file pasted more than typed, and a file
\* only typed with more lines deleted than added and many edits.
FileProfiles ==
    { [keystrokeCount |-> 0, pasteCount |-> 0,
       linesAdded |-> 0, linesDeleted |-> 0, editCount |-> 0],
      [keystrokeCount |-> 3, pasteCount |-> 2,
       linesAdded |-> 0, linesDeleted |-> 2, editCount |-> 1],
      [keystrokeCount |-> 1, pasteCount |-> 3,
       linesAdded |-> 4, linesDeleted |-> 1, editCount |-> 2],
      [keystrokeCount |-> 4, pasteCount |-> 0,
       linesAdded |-> 1, linesDeleted |-> 3, editCount |-> 6] }

\* The language tags of the files, in the order in which they first appear
\* among Object.values(fileMetrics).  No code of the service compares the
\* tags themselves, so one order of first appearance stands for all.
Languages == << "TypeScript", "Python", "Go", "Rust", "Java", "Ruby" >>

\* totalActiveTime and totalIdleTime, in milliseconds.
TimeValues == {0, 10000, 60000}

\* The entries of fileMetrics.
FileRecords ==
    { [keystrokeCount |-> p.keystrokeCount, pasteCount |-> p.pasteCount,
       linesAdded |-> p.linesAdded, linesDeleted |-> p.linesDeleted,
       editCount |-> p.editCount, language |-> Languages[l]] :
         p \in FileProfiles, l \in 1..Len(Languages) }

\* SkillCategory, in the order calculateCategoryScores pushes the scores.
Categories == << "coding_proficiency", "problem_solving", "focus_consistency",
                 "code_quality", "language_versatility" >>

Min(a, b) == IF a <= b THEN a ELSE b

\* Math.floor(n / d), for d > 0.
floorDiv(n, d) == n \div d

\* The rounding that truncates instead.
round_truncating(n, d) == floorDiv(n, d)

\* Math.round(n / d), for d > 0: the nearest integer, halves upwards.
round(n, d) == floorDiv(2 * n + d, 2 * d)

\* The guard that defaults to 1.
backspaceRatioOf_defaultOne(linesAdded, linesDeleted) ==
    IF linesAdded > 0 THEN Quotient(linesDeleted, linesAdded)
    ELSE [num |-> 1, den |-> 1]

\* extractBehavioralMetrics: backspaceRatio.
backspaceRatioOf(linesAdded, linesDeleted) ==
    IF linesAdded > 0 THEN Quotient(linesDeleted, linesAdded) ELSE Zero

\* languageDistribution after files.forEach has seen one more file: a list of
\* [language, count] in the order the keys were inserted.
countLanguage(dist, language) ==
    IF \E i \in 1..Len(dist) : dist[i].language = language
    THEN [i \in 1..Len(dist) |->
            IF dist[i].language = language
            THEN [dist[i] EXCEPT !.count = @ + 1] ELSE dist[i]]
    ELSE Append(dist, [language |-> language, count |-> 1])

\* languages.reduce((a, b) => dist[a] > dist[b] ? a : b, languages[0] || 'unknown')
RECURSIVE reducePrimary(_, _, _)
reducePrimary(dist, a, i) ==
    IF i > Len(dist) THEN a
    ELSE reducePrimary(dist,
                       IF dist[a].count > dist[i].count THEN a ELSE i,
                       i + 1)

primaryLanguageOf(dist) ==
    IF Len(dist) = 0 THEN "unknown" ELSE dist[reducePrimary(dist, 1, 1)].language

\* extractBehavioralMetrics, from the sums and the language table of the fold.
extractBehavioralMetrics(sums, dist, totalFiles, totalActiveTime, totalIdleTime) ==
    LET totalInput == sums.keystrokeCount + sums.pasteCount
    IN [ typingToTotalRatio |->
             IF totalInput > 0 THEN Quotient(sums.keystrokeCount, totalInput) ELSE Zero,
         keystrokeCount |-> sums.keystrokeCount,
         pasteCount |-> sums.pasteCount,
         editCount |-> sums.editCount,
         linesAdded |-> sums.linesAdded,
         linesDeleted |-> sums.linesDeleted,
         backspaceRatio |-> backspaceRatioOf(sums.linesAdded, sums.linesDeleted),
         activeTimeMs |-> totalActiveTime,
         idleTimeMs |-> totalIdleTime,
         focusRatio |->
             IF totalActiveTime + totalIdleTime > 0
             THEN Quotient(totalActiveTime, totalActiveTime + totalIdleTime)
             ELSE Zero,
         languages |-> [i \in 1..Len(dist) |-> dist[i].language],
         primaryLanguage |-> primaryLanguageOf(dist),
         languageDistribution |->
             [i \in 1..Len(dist) |->
                 [language |-> dist[i].language,
                  percent |-> Quotient(dist[i].count * 100, totalFiles)]],
         fileCount |-> totalFiles ]

\* scoreToLevel with strict comparisons.
scoreToLevel_strict(score) ==
    IF score > 80 THEN "expert"
    ELSE IF score > 60 THEN "advanced"
    ELSE IF score > 40 THEN "intermediate"
    ELSE "beginner"

\* scoreToLevel
scoreToLevel(score) ==
    IF score >= 80 THEN "expert"
    ELSE IF score >= 60 THEN "advanced"
    ELSE IF score >= 40 THEN "intermediate"
    ELSE "beginner"

\* editsPerMinute of calculateCategoryScores:
\* editCount / (activeTimeMs / 60000), 0 when no time was active.
editsPerMinuteOf(metrics) ==
    IF metrics.activeTimeMs > 0
    THEN Quotient(metrics.editCount * 60000, metrics.activeTimeMs)
    ELSE Zero

\* The problem-solving score without the Math.max(0, ...) floor.
problemSolvingScore_noFloor(metrics) ==
    LET epm == editsPerMinuteOf(metrics)
    IN round(100 * epm.den - 10 * epm.num, epm.den)

\* calculateCategoryScores: Math.max(0, Math.round(100 - editsPerMinute * 10)).
problemSolvingScore(metrics) ==
    LET epm == editsPerMinuteOf(metrics)
    IN Max(0, round(100 * epm.den - 10 * epm.num, epm.den))

SkillScore(category, score) ==
    [category |-> category, score |-> score, level |-> scoreToLevel(score)]

\* calculateCategoryScores
calculateCategoryScores(metrics) ==
    LET codingScore ==
            round(metrics.typingToTotalRatio.num * 100, metrics.typingToTotalRatio.den)
        focusScore ==
            round(metrics.focusRatio.num * 100, metrics.focusRatio.den)
        qualityScore ==
            Max(0, round((metrics.backspaceRatio.den - metrics.backspaceRatio.num) * 100,
                         metrics.backspaceRatio.den))
        versatilityScore == Min(100, Len(metrics.languages) * 20)
    IN << SkillScore(Categories[1], codingScore),
          SkillScore(Categories[2], problemSolvingScore(metrics)),
          SkillScore(Categories[3], focusScore),
          SkillScore(Categories[4], qualityScore),
          SkillScore(Categories[5], versatilityScore) >>

\* Array.prototype.sort with a comparator, which is stable: x is inserted
\* behind every element that does not have to come after it.
RECURSIVE insertAscending(_, _)
insertAscending(sorted, x) ==
    IF Len(sorted) = 0 THEN <<x>>
    ELSE IF x.score < Head(sorted).score THEN <<x>> \o sorted
    ELSE <<Head(sorted)>> \o insertAscending(Tail(sorted), x)

\* A descending sort that puts the later of two equal scores first.
RECURSIVE insertDescending_tiesReversed(_, _)
insertDescending_tiesReversed(sorted, x) ==
    IF Len(sorted) = 0 THEN <<x>>
    ELSE IF x.score >= Head(sorted).score THEN <<x>> \o sorted
    ELSE <<Head(sorted)>> \o insertDescending_tiesReversed(Tail(sorted), x)

RECURSIVE insertDescending(_, _)
insertDescending(sorted, x) ==
    IF Len(sorted) = 0 THEN <<x>>
    ELSE IF x.score > Head(sorted).score THEN <<x>> \o sorted
    ELSE <<Head(sorted)>> \o insertDescending(Tail(sorted), x)

RECURSIVE sortAscending(_)
\* [...categoryScores].sort((a, b) => a.score - b.score)
sortAscending(scores) ==
    IF Len(scores) = 0 THEN <<>>
    ELSE insertAscending(sortAscending(SubSeq(scores, 1, Len(scores) - 1)),
                         scores[Len(scores)])

RECURSIVE sortDescending(_)
\* [...categoryScores].sort((a, b) => b.score - a.score)
sortDescending(scores) ==
    IF Len(scores) = 0 THEN <<>>
    ELSE insertDescending(sortDescending(SubSeq(scores, 1, Len(scores) - 1)),
                          scores[Len(scores)])

\* categoryToString
categoryToString(category) ==
    CASE category = "coding_proficiency"   -> "Coding Proficiency"
      [] category = "problem_solving"      -> "Problem Solving"
      [] category = "focus_consistency"    -> "Focus & Consistency"
      [] category = "code_quality"         -> "Code Quality"
      [] category = "language_versatility" -> "Language Versatility"
      [] OTHER -> category

RECURSIVE sumScores(_)
\* categoryScores.reduce((sum, s) => sum + s.score, 0)
sumScores(scores) ==
    IF Len(scores) = 0 THEN 0 ELSE Head(scores).score + sumScores(Tail(scores))

\* sorted.slice(0, 2) and sorted.slice(-2)
sliceFirst2(s) == SubSeq(s, 1, Min(2, Len(s)))
sliceLast2(s) == SubSeq(s, Max(1, Len(s) - 1), Len(s))

\* buildSkillProfile (without analyzedAt)
buildSkillProfile(categoryScores) ==
    LET overallScore == round(sumScores(categoryScores), Len(categoryScores))
        sorted == sortDescending(categoryScores)
        top == sliceFirst2(sorted)
        bottom == sliceLast2(sorted)
    IN [ overallScore |-> overallScore,
         overallLevel |-> scoreToLevel(overallScore),
         categoryScores |-> categoryScores,
         strengths |-> [i \in 1..Len(top) |-> categoryToString(top[i].category)],
         weaknesses |-> [i \in 1..Len(bottom) |-> categoryToString(bottom[i].category)] ]

\* The test without the score threshold.
isRecommended_noThreshold(scoreData, metrics) ==
    IF scoreData.category = "coding_proficiency"
    THEN 2 * metrics.typingToTotalRatio.num < metrics.typingToTotalRatio.den
    ELSE TRUE

\* The test without the typing-ratio gate of coding proficiency.
isRecommended_noGate(scoreData, metrics) ==
    scoreData.score < 70

\* generateRecommendations: the callback pushes a recommendation for
\* scoreData (score below 70; for coding proficiency also
\* metrics.typingToTotalRatio < 0.5).
isRecommended(scoreData, metrics) ==
    IF scoreData.score >= 70 THEN FALSE
    ELSE IF scoreData.category = "coding_proficiency"
    THEN 2 * metrics.typingToTotalRatio.num < metrics.typingToTotalRatio.den
    ELSE TRUE

\* generateRecommendations: the priority of the element at `index` (from 0)
\* of the sorted array.
priorityOf(index) ==
    IF index = 0 THEN "high" ELSE IF index = 1 THEN "medium" ELSE "low"

RECURSIVE forEachRecommend(_, _, _)
\* sorted.forEach((scoreData, index) => ...), from position i (from 1) on.
forEachRecommend(sorted, metrics, i) ==
    IF i > Len(sorted) THEN <<>>
    ELSE (IF isRecommended(sorted[i], metrics)
          THEN << [category |-> sorted[i].category, priority |-> priorityOf(i - 1)] >>
          ELSE <<>>)
         \o forEachRecommend(sorted, metrics, i + 1)

\* generateRecommendations
generateRecommendations(categoryScores, metrics) ==
    forEachRecommend(sortAscending(categoryScores), metrics, 1)

NoSums == [keystrokeCount |-> 0, pasteCount |-> 0, linesAdded |-> 0,
           linesDeleted |-> 0, editCount |-> 0]
NoAnalysis == [sessionId |-> "none", profile |-> [categoryScores |-> <<>>],
               recommendations |-> <<>>]

InitSkillVars ==
    /\ skPc = "idle"
    /\ skActive = 0
    /\ skIdle = 0
    /\ skFiles = 0
    /\ skSums = NoSums
    /\ skDist = <<>>
    /\ skResult = NoAnalysis

\* analyzeSkill(fileMetrics, sessionId, totalActiveTime, totalIdleTime) is
\* entered.
InitSkill ==
    /\ skPc = "fold"
    /\ skActive \in TimeValues
    /\ skIdle \in TimeValues
    /\ skFiles = 0
    /\ skSums = NoSums
    /\ skDist = <<>>
    /\ skResult = NoAnalysis

\* extractBehavioralMetrics: the reduce and forEach calls take the next file.
FoldFile(f) ==
    /\ skPc = "fold"
    /\ skFiles < MaxFiles
    /\ \E l \in 1..Min(Len(skDist) + 1, Len(Languages)) : f.language = Languages[l]
    /\ skFiles' = skFiles + 1
    /\ skSums' = [ keystrokeCount |-> skSums.keystrokeCount + f.keystrokeCount,
                   pasteCount |-> skSums.pasteCount + f.pasteCount,
                   linesAdded |-> skSums.linesAdded + f.linesAdded,
                   linesDeleted |-> skSums.linesDeleted + f.linesDeleted,
                   editCount |-> skSums.editCount + f.editCount ]
    /\ skDist' = countLanguage(skDist, f.language)
    /\ UNCHANGED <<skPc, skActive, skIdle, skResult,
                   trackerVars, authVars, detectVars, basicVars, gateVars,
                   complexVars, structVars>>

\* The files are exhausted: the rest of extractBehavioralMetrics, then
\* calculateCategoryScores, buildSkillProfile, generateRecommendations and
\* the return of analyzeSkill.
AnalyzeSkillReturn ==
    /\ skPc = "fold"
    /\ LET metrics == extractBehavioralMetrics(skSums, skDist, skFiles, skActive, skIdle)
           categoryScores == calculateCategoryScores(metrics)
       IN skResult' = [ sessionId |-> "session",
                        profile |-> buildSkillProfile(categoryScores),
                        recommendations |->
                            generateRecommendations(categoryScores, metrics),
                        totalActiveTime |-> metrics.activeTimeMs,
                        totalKeystrokes |-> metrics.keystrokeCount,
                        totalPastes |-> metrics.pasteCount ]
    /\ skPc' = "done"
    /\ UNCHANGED <<skActive, skIdle, skFiles, skSums, skDist,
                   trackerVars, authVars, detectVars, basicVars, gateVars,
                   complexVars, structVars>>

(***************************************************************************)
(* CodeFeatureExtractor.shouldAnalyze                                      *)
(***************************************************************************)

\* How far around the two size limits the content lengths are drawn.
LengthSlack == 3

\* The content lengths: empty, around 100 and around 1 MiB.
CodeLengths ==
    {0} \cup ((100 - LengthSlack)..(100 + LengthSlack))
        \cup ((1024 * 1024 - LengthSlack)..(1024 * 1024 + LengthSlack))

\* The paths: the documents of the tracker, one path for each non-code
\* language, one with an extension the map does not hold, one without an
\* extension and one with an upper-case extension.
AnalyzePaths ==
    Docs \cup {"c.json", "d.md", "e.xml", "f.yaml", "g.toml", "h.ini", "i.txt",
               "j.log", "k.xyz", "Makefile", "M.TS", "n.go"}

\* LanguageDetector.isCodeFile
isCodeFile(filePath) ==
    detectLanguage(filePath) \notin
        {"Unknown", "JSON", "XML", "YAML", "TOML", "INI", "Plain Text",
         "Log File", "Markdown"}

\* shouldAnalyze that rejects a content of exactly 100 characters.
shouldAnalyze_exclusiveMinimum(filePath, codeLength) ==
    IF ~isCodeFile(filePath) THEN FALSE
    ELSE IF codeLength <= 100 THEN FALSE
    ELSE IF codeLength > 1024 * 1024 THEN FALSE
    ELSE TRUE

\* CodeFeatureExtractor.shouldAnalyze
shouldAnalyze(filePath, codeLength) ==
    IF ~isCodeFile(filePath) THEN FALSE
    ELSE IF codeLength < 100 THEN FALSE
    ELSE IF codeLength > 1024 * 1024 THEN FALSE
    ELSE TRUE

InitGateVars ==
    /\ gatePc = "idle"
    /\ gatePath = NoFile
    /\ gateLength = 0
    /\ gateResult = FALSE

\* The caller's arguments, before the call.
InitGate ==
    /\ gatePc = "call"
    /\ gatePath \in AnalyzePaths
    /\ gateLength \in CodeLengths
    /\ gateResult = FALSE

\* CodeFeatureExtractor.shouldAnalyze(filePath, code.length) returns.
ShouldAnalyzeCall ==
    /\ gatePc = "call"
    /\ gatePc' = "done"
    /\ gateResult' = shouldAnalyze(gatePath, gateLength)
    /\ UNCHANGED <<gatePath, gateLength,
                   trackerVars, authVars, detectVars, basicVars, skillVars,
                   complexVars, structVars>>

(***************************************************************************)
(* CodeFeatureExtractor.extractComplexityMetrics                           *)
(*                                                                         *)
(* A line is a sequence of characters.  The regular expressions the loop   *)
(* builds from CONTROL_FLOW_KEYWORDS are modelled by what String.match     *)
(* with the g flag returns for them.                                       *)
(***************************************************************************)

\* Largest number of elements of `lines`.
MaxComplexityLines == 2

\* CONTROL_FLOW_KEYWORDS
CONTROL_FLOW_KEYWORDS ==
    << <<"i", "f">>, <<"e", "l", "s", "e">>, <<"e", "l", "i", "f">>,
       <<"f", "o", "r">>, <<"w", "h", "i", "l", "e">>,
       <<"s", "w", "i", "t", "c", "h">>, <<"c", "a", "s", "e">>,
       <<"t", "r", "y">>, <<"c", "a", "t", "c", "h">>,
       <<"e", "x", "c", "e", "p", "t">>, <<"f", "i", "n", "a", "l", "l", "y">>,
       <<"w", "i", "t", "h">>, <<"m", "a", "t", "c", "h">>,
       <<"&", "&">>, <<"|", "|">>, <<"?">>, <<"?", "?">> >>

\* The pieces the lines are made of: two keywords, a letter, the characters
\* of the operators, the braces and a blank.
ComplexityTokens ==
    { <<"i", "f">>, <<"f", "o", "r">>, <<"x">>, <<"?">>, <<"&">>, <<"|">>,
      <<"{">>, <<"}">>, <<" ">> }

\* The lines: empty, one piece, or two pieces.
ComplexityLines ==
    {<<>>} \cup ComplexityTokens
           \cup { t \o u : t \in ComplexityTokens, u \in ComplexityTokens }

\* \w, on the characters of ComplexityLines.
IsWordChar(c) == c \notin {"?", "&", "|", "{", "}", " "}

\* str.match(/text/g).length for a text without special characters: the
\* matches are found from left to right and do not overlap.
RECURSIVE literalMatches(_, _, _)
literalMatches(str, text, i) ==
    IF i + Len(text) - 1 > Len(str) THEN 0
    ELSE IF SubSeq(str, i, i + Len(text) - 1) = text
    THEN 1 + literalMatches(str, text, i + Len(text))
    ELSE literalMatches(str, text, i + 1)

\* str.match(/\btext\b/g).length for a text of word characters.
RECURSIVE wordMatches(_, _, _)
wordMatches(str, text, i) ==
    IF i + Len(text) - 1 > Len(str) THEN 0
    ELSE IF /\ SubSeq(str, i, i + Len(text) - 1) = text
            /\ (i = 1 \/ ~IsWordChar(str[i - 1]))
            /\ (i + Len(text) > Len(str) \/ ~IsWordChar(str[i + Len(text)]))
    THEN 1 + wordMatches(str, text, i + Len(text))
    ELSE wordMatches(str, text, i + 1)

\* str.match(/\c?/g).length and str.match(/\c|/g).length: at every index the
\* expression matches, the character c or else the empty string (after which
\* the index is advanced by one), and once more at the end of str.
RECURSIVE optionalMatches(_, _, _)
optionalMatches(str, c, i) ==
    IF i > Len(str) THEN 1
    ELSE IF str[i] = c THEN 1 + optionalMatches(str, c, i + 1)
    ELSE 1 + optionalMatches(str, c, i + 1)

\* (trimmed.match(regex) || []).length for the regex built from keyword:
\* new RegExp(`\\${keyword}`, 'g') when keyword.length <= 2, which escapes the
\* first character only (so '||' is "a bar, or nothing" and '??' is "an
\* optional question mark"), and new RegExp(`\\b${keyword}\\b`, 'g') otherwise.
keywordMatches(keyword, str) ==
    IF Len(keyword) <= 2
    THEN IF Len(keyword) = 2 /\ keyword[2] \in {"|", "?"}
         THEN optionalMatches(str, keyword[1], 1)
         ELSE literalMatches(str, keyword, 1)
    ELSE wordMatches(str, keyword, 1)

\* for (const keyword of CONTROL_FLOW_KEYWORDS): what the keywords from
\* position k on add to complexity.
RECURSIVE controlFlowMatches(_, _)
controlFlowMatches(str, k) ==
    IF k > Len(CONTROL_FLOW_KEYWORDS) THEN 0
    ELSE keywordMatches(CONTROL_FLOW_KEYWORDS[k], str) + controlFlowMatches(str, k + 1)

\* (trimmed.match(/c/g) || []).length for a brace c.
braceCount(str, c) == Cardinality({ i \in 1..Len(str) : str[i] = c })

\* The nesting depth that follows the counter down as well.
nextMaxNesting_lastValue(maxNesting, currentNesting) == currentNesting

\* Math.max(maxNesting, currentNesting)
nextMaxNesting(maxNesting, currentNesting) == Max(maxNesting, currentNesting)

NoComplexity == [cyclomaticComplexity |-> 0, nestingDepth |-> 0]

InitComplexVars ==
    /\ cxPc = "idle"
    /\ cxInput = <<>>
    /\ cxComplexity = 0
    /\ cxCurrent = 0
    /\ cxMax = 0
    /\ cxResult = NoComplexity

\* extractComplexityMetrics(lines) is entered.
InitComplexity ==
    /\ cxPc = "loop"
    /\ cxInput = <<>>
    /\ cxComplexity = 1
    /\ cxCurrent = 0
    /\ cxMax = 0
    /\ cxResult = NoComplexity

\* for (const line of lines) { ... }: one iteration, on the next line.
ComplexityLine(line) ==
    /\ cxPc = "loop"
    /\ Len(cxInput) < MaxComplexityLines
    /\ cxInput' = Append(cxInput, line)
    /\ LET trimmed == trim(line)
           openBraces == braceCount(trimmed, "{")
           closeBraces == braceCount(trimmed, "}")
       IN /\ cxComplexity' = cxComplexity + controlFlowMatches(trimmed, 1)
          /\ cxCurrent' = cxCurrent + openBraces - closeBraces
          /\ cxMax' = nextMaxNesting(cxMax, cxCurrent + openBraces - closeBraces)
    /\ UNCHANGED <<cxPc, cxResult, trackerVars, authVars, detectVars, basicVars, skillVars,
                   gateVars, structVars>>

\* The end of `lines` (code.split('\n') has at least one element) and the
\* return.
ComplexityReturn ==
    /\ cxPc = "loop"
    /\ Len(cxInput) >= 1
    /\ cxPc' = "done"
    /\ cxResult' = [cyclomaticComplexity |-> cxComplexity, nestingDepth |-> cxMax]
    /\ UNCHANGED <<cxInput, cxComplexity, cxCurrent, cxMax, trackerVars, authVars, detectVars,
                   basicVars, skillVars, gateVars, structVars>>

(***************************************************************************)
(* CodeFeatureExtractor.extractStructuralMetrics                           *)
(***************************************************************************)

\* Largest number of elements of `lines`, and the widest indent of a line.
MaxStructureLines == 3
MaxIndent == 9

Spaces(n) == [i \in 1..n |-> " "]

\* The lines: 0..MaxIndent blanks, alone or before a letter, and two lines
\* with a tab in the indent.
StructureLines ==
    { Spaces(n) \o tail : n \in 0..MaxIndent, tail \in {<<>>, <<"x">>} }
        \cup { <<"\t", "x">>, <<" ", "\t", "x">> }

\* \s, on the characters of StructureLines.
IsWhitespace(c) == c \in {" ", "\t"}

\* The length of match[1] of line.match(/^(\s+)/), from position i on.
RECURSIVE leadingWhitespace(_, _)
leadingWhitespace(line, i) ==
    IF i <= Len(line) /\ IsWhitespace(line[i])
    THEN 1 + leadingWhitespace(line, i + 1) ELSE 0

\* match[1] of line.match(/^(\s+)/)
indentOf(line) == SubSeq(line, 1, leadingWhitespace(line, 1))

\* lines.filter(l => l.length > 0 && /^\s+/.test(l)) keeps the line.
isIndented(line) == Len(line) > 0 /\ IsWhitespace(line[1])

\* Math.round(n / d * 100) / 100, for d > 0.
round2(n, d) == Quotient(round(100 * n, d), 100)

RECURSIVE sumOf(_)
sumOf(numbers) == IF Len(numbers) = 0 THEN 0 ELSE Head(numbers) + sumOf(Tail(numbers))

RECURSIVE minOf(_)
\* Math.min(...numbers), for a list that is not empty.
minOf(numbers) ==
    IF Len(numbers) = 1 THEN numbers[1] ELSE Min(Head(numbers), minOf(Tail(numbers)))

RECURSIVE maxOf(_)
\* Math.max(...numbers, 0)
maxOf(numbers) ==
    IF Len(numbers) = 0 THEN 0 ELSE Max(Head(numbers), maxOf(Tail(numbers)))

\* "Determine indentation style"
indentationStyleOf(tabCount, spaceCount) ==
    IF tabCount > 0 /\ spaceCount > 0 THEN "mixed"
    ELSE IF tabCount > spaceCount THEN "tabs"
    ELSE "spaces"

\* The indentation size taken from the widest indent.
indentationSizeOf_widest(indentSizes) ==
    IF Len(indentSizes) > 0 THEN Min(maxOf(indentSizes), 8) ELSE 2

\* "Calculate indentation size": every element of indentSizes is the length
\* of a match of \s+, so the filter s > 0 keeps all of them.
indentationSizeOf(indentSizes) ==
    IF Len(indentSizes) > 0
    THEN LET minIndent == minOf(indentSizes)
         IN IF minIndent > 0 THEN Min(minIndent, 8) ELSE 2
    ELSE 2

\* "Calculate indentation consistency", before the rounding.
indentationConsistencyOf(indentSizes, indentationSize) ==
    LET consistentIndents ==
            Cardinality({ i \in 1..Len(indentSizes) :
                            indentSizes[i] % indentationSize = 0 })
    IN IF Len(indentSizes) > 0
       THEN [num |-> consistentIndents, den |-> Len(indentSizes)]
       ELSE [num |-> 1, den |-> 1]

\* The record extractStructuralMetrics returns.
structuralMetrics(lines, tabCount, spaceCount, indentSizes) ==
    LET lineLengths == [i \in 1..Len(lines) |-> Len(lines[i])]
        indentationSize == indentationSizeOf(indentSizes)
        consistency == indentationConsistencyOf(indentSizes, indentationSize)
    IN [ averageLineLength |->
             IF Len(lineLengths) > 0
             THEN round2(sumOf(lineLengths), Len(lineLengths)) ELSE Zero,
         maxLineLength |-> maxOf(lineLengths),
         indentationConsistency |-> round2(consistency.num, consistency.den),
         indentationStyle |-> indentationStyleOf(tabCount, spaceCount),
         indentationSize |-> indentationSize ]

NoStructure == [indentationSize |-> 0]

InitStructVars ==
    /\ stPc = "idle"
    /\ stInput = <<>>
    /\ stTabCount = 0
    /\ stSpaceCount = 0
    /\ stIndentSizes = <<>>
    /\ stResult = NoStructure

\* extractStructuralMetrics(lines) is entered.
InitStructure ==
    /\ stPc = "loop"
    /\ stInput = <<>>
    /\ stTabCount = 0
    /\ stSpaceCount = 0
    /\ stIndentSizes = <<>>
    /\ stResult = NoStructure

\* The filter and the loop over indentedLines, for the next element of
\* `lines`.
StructureLine(line) ==
    /\ stPc = "loop"
    /\ Len(stInput) < MaxStructureLines
    /\ stInput' = Append(stInput, line)
    /\ IF ~isIndented(line)
       THEN UNCHANGED <<stTabCount, stSpaceCount, stIndentSizes>>
       ELSE LET indent == indentOf(line)
            IN IF \E i \in 1..Len(indent) : indent[i] = "\t"
               THEN /\ stTabCount' = stTabCount + 1
                    /\ UNCHANGED <<stSpaceCount, stIndentSizes>>
               ELSE /\ stSpaceCount' = stSpaceCount + 1
                    /\ stIndentSizes' = Append(stIndentSizes, Len(indent))
                    /\ UNCHANGED stTabCount
    /\ UNCHANGED <<stPc, stResult, trackerVars, authVars, detectVars, basicVars, skillVars,
                   gateVars, complexVars>>

\* The end of `lines` (code.split('\n') has at least one element): style,
\* size, consistency and the return.
StructureReturn ==
    /\ stPc = "loop"
    /\ Len(stInput) >= 1
    /\ stPc' = "done"
    /\ stResult' = structuralMetrics(stInput, stTabCount, stSpaceCount, stIndentSizes)
    /\ UNCHANGED <<stInput, stTabCount, stSpaceCount, stIndentSizes, trackerVars, authVars,
                   detectVars, basicVars, skillVars, gateVars, complexVars>>

(***************************************************************************)
(* TrackingService.analyzeFile                                             *)
(*                                                                         *)
(* Called by the save listener (while running) and by the analyzeFile      *)
(* command (at any time).  Everything up to `await this.saveState()` runs  *)
(* without yielding; what follows the await only logs and returns.         *)
(***************************************************************************)

\* document.getText().length of the analysed document: below and at the
\* smallest eligible length.
AnalyzeLengths == {99, 100}

\* this.fileMetrics[filePath], with NoExtract for undefined.
trackingMetricsOf(fms, filePath) ==
    IF filePath \in DOMAIN fms THEN fms[filePath] ELSE NoExtract

\* analyzeFile that records its event for a file it skips.
AnalyzeFile_recordsSkipped(doc, length, d) ==
    /\ Call(d)
    /\ IF ~shouldAnalyze(doc, length)
       THEN /\ events' = recordEvent(events, session, now', "code_analysis", doc)
            /\ UNCHANGED <<analysis, fileMetrics, session, storageVars>>
       ELSE /\ analysis' = [ file |-> doc, now |-> now',
                             trackingMetrics |-> trackingMetricsOf(fileMetrics, doc) ]
            /\ events' = recordEvent(events, session, now', "code_analysis", doc)
            /\ fileMetrics' =
                   IF doc \in DOMAIN fileMetrics
                   THEN [fileMetrics EXCEPT ![doc].codeAnalysisCount = @ + 1,
                                            ![doc].lastAnalysisTimestamp = now']
                   ELSE fileMetrics
            /\ session' = IF session = NoSession THEN session
                          ELSE [session EXCEPT !.codeAnalysesPerformed = @ + 1]
            /\ SaveState(events')
    /\ UNCHANGED <<running, lastActivity, keystrokeCount, updateTimer, currentFile,
                   lastTextChangeTime, nextId, change>>

\* analyzeFile(document)
AnalyzeFile(doc, length, d) ==
    /\ Call(d)
    /\ IF ~shouldAnalyze(doc, length)
       THEN UNCHANGED <<analysis, events, fileMetrics, session, storageVars>>
       ELSE /\ analysis' = [ file |-> doc, now |-> now',
                             trackingMetrics |-> trackingMetricsOf(fileMetrics, doc) ]
            /\ events' = recordEvent(events, session, now', "code_analysis", doc)
            /\ fileMetrics' =
                   IF doc \in DOMAIN fileMetrics
                   THEN [fileMetrics EXCEPT ![doc].codeAnalysisCount = @ + 1,
                                            ![doc].lastAnalysisTimestamp = now']
                   ELSE fileMetrics
            /\ session' = IF session = NoSession THEN session
                          ELSE [session EXCEPT !.codeAnalysesPerformed = @ + 1]
            /\ SaveState(events')
    /\ UNCHANGED <<running, lastActivity, keystrokeCount, updateTimer, currentFile,
                   lastTextChangeTime, nextId, change>>

(***************************************************************************)
(* AuthService: signInWithEmail, signOut, refreshToken                     *)
(*                                                                         *)
(* Every await of the three methods ends a step: the call that is awaited  *)
(* (secrets.store, secrets.delete, globalState.update, fetch) is issued in *)
(* the step before, and the method goes on in a later step.                *)
(***************************************************************************)

\* The service of a fresh installation after restoreSession() found no
\* stored session.
InitAuthVars ==
    /\ isAuthenticated = FALSE
    /\ authUser = FALSE
    /\ secretToken = FALSE
    /\ secretRefreshToken = FALSE
    /\ storedUser = FALSE
    /\ tokenRefreshTimer = FALSE
    /\ signInPc = "idle"
    /\ signOutPc = "idle"
    /\ refreshPc = "idle"
    /\ refreshRead = FALSE
    /\ signOutDone = FALSE
    /\ signInApplied = FALSE

authFrame == <<trackerVars, detectVars, basicVars, skillVars, gateVars,
               complexVars, structVars>>

\* signInWithEmail(email, password), up to the await of fetch.
SignIn ==
    /\ signInPc = "idle"
    /\ signInPc' = "fetch"
    /\ UNCHANGED <<isAuthenticated, authUser, secretToken, secretRefreshToken,
                   storedUser, tokenRefreshTimer, signOutPc, refreshPc,
                   refreshRead, signOutDone, signInApplied, authFrame>>

\* The response of accounts:signInWithPassword: !response.ok throws; otherwise
\* handleSuccessfulAuth stores the id token.
SignInResponse(ok) ==
    /\ signInPc = "fetch"
    /\ IF ok
       THEN /\ secretToken' = TRUE
            /\ signInPc' = "storeRefresh"
            /\ signOutDone' = FALSE
       ELSE /\ signInPc' = "idle"
            /\ UNCHANGED <<secretToken, signOutDone>>
    /\ signInApplied' = (ok \/ signInApplied)
    /\ UNCHANGED <<isAuthenticated, authUser, secretRefreshToken, storedUser,
                   tokenRefreshTimer, signOutPc, refreshPc, refreshRead, authFrame>>

\* handleSuccessfulAuth after each await: store the refresh token, store the
\* user, then set authState and scheduleTokenRefresh.
HandleSuccessfulAuth ==
    /\ signInPc \in {"storeRefresh", "storeUser", "finish"}
    /\ signInPc' = CASE signInPc = "storeRefresh" -> "storeUser"
                     [] signInPc = "storeUser" -> "finish"
                     [] OTHER -> "idle"
    /\ secretRefreshToken' = IF signInPc = "storeRefresh" THEN TRUE
                             ELSE secretRefreshToken
    /\ storedUser' = IF signInPc = "storeUser" THEN TRUE ELSE storedUser
    /\ isAuthenticated' = IF signInPc = "finish" THEN TRUE ELSE isAuthenticated
    /\ authUser' = IF signInPc = "finish" THEN TRUE ELSE authUser
    /\ tokenRefreshTimer' = IF signInPc = "finish" THEN TRUE ELSE tokenRefreshTimer
    /\ signOutDone' = IF signInPc = "finish" THEN FALSE ELSE signOutDone
    /\ signInApplied' = TRUE
    /\ UNCHANGED <<secretToken, signOutPc, refreshPc, refreshRead, authFrame>>

\* signOut(), up to its first await: secrets.delete(TOKEN_KEY) is issued.
SignOut ==
    /\ signOutPc = "idle"
    /\ secretToken' = FALSE
    /\ signOutPc' = "deleteRefresh"
    /\ signInApplied' = FALSE
    /\ UNCHANGED <<isAuthenticated, authUser, secretRefreshToken, storedUser,
                   tokenRefreshTimer, signInPc, refreshPc, refreshRead,
                   signOutDone, authFrame>>

\* signOut() after each await: delete the refresh token, clear the stored
\* user, then clear the timer and reset authState.
SignOutStep ==
    /\ signOutPc \in {"deleteRefresh", "clearUser", "finish"}
    /\ signOutPc' = CASE signOutPc = "deleteRefresh" -> "clearUser"
                      [] signOutPc = "clearUser" -> "finish"
                      [] OTHER -> "idle"
    /\ secretRefreshToken' = IF signOutPc = "deleteRefresh" THEN FALSE
                             ELSE secretRefreshToken
    /\ storedUser' = IF signOutPc = "clearUser" THEN FALSE ELSE storedUser
    /\ tokenRefreshTimer' = IF signOutPc = "finish" THEN FALSE ELSE tokenRefreshTimer
    /\ isAuthenticated' = IF signOutPc = "finish" THEN FALSE ELSE isAuthenticated
    /\ authUser' = IF signOutPc = "finish" THEN FALSE ELSE authUser
    /\ signOutDone' = IF signOutPc = "finish" THEN TRUE ELSE signOutDone
    /\ UNCHANGED <<secretToken, signInPc, refreshPc, refreshRead, signInApplied, authFrame>>

\* refreshToken(), up to the await of secrets.get(REFRESH_TOKEN_KEY).
refreshTokenCall ==
    /\ refreshPc = "idle"
    /\ refreshPc' = "get"
    /\ refreshRead' = secretRefreshToken

\* The timeout of scheduleTokenRefresh fires and calls refreshToken().
TimerFires ==
    /\ tokenRefreshTimer
    /\ tokenRefreshTimer' = FALSE
    /\ refreshTokenCall
    /\ UNCHANGED <<isAuthenticated, authUser, secretToken, secretRefreshToken,
                   storedUser, signInPc, signOutPc, signOutDone, signInApplied, authFrame>>

\* getToken() of an authenticated user whose token is about to expire calls
\* refreshToken().
GetToken ==
    /\ isAuthenticated
    /\ refreshTokenCall
    /\ UNCHANGED <<isAuthenticated, authUser, secretToken, secretRefreshToken,
                   storedUser, tokenRefreshTimer, signInPc, signOutPc,
                   signOutDone, signInApplied, authFrame>>

\* refreshToken() after reading the refresh token: without one it throws and
\* its catch calls signOut(); with one it awaits fetch.
RefreshGot ==
    /\ refreshPc = "get"
    /\ IF refreshRead
       THEN /\ refreshPc' = "fetch"
            /\ UNCHANGED secretToken
       ELSE /\ refreshPc' = "deleteRefresh"
            /\ secretToken' = FALSE
    /\ signInApplied' = (refreshRead /\ signInApplied)
    /\ UNCHANGED <<isAuthenticated, authUser, secretRefreshToken, storedUser,
                   tokenRefreshTimer, signInPc, signOutPc, refreshRead,
                   signOutDone, authFrame>>

\* The response of securetoken.googleapis.com: !response.ok throws and the
\* catch calls signOut(); otherwise the new id token is stored.
RefreshResponse(ok) ==
    /\ refreshPc = "fetch"
    /\ IF ok
       THEN /\ refreshPc' = "storeRefresh"
            /\ secretToken' = TRUE
       ELSE /\ refreshPc' = "deleteRefresh"
            /\ secretToken' = FALSE
    /\ signInApplied' = (ok /\ signInApplied)
    /\ UNCHANGED <<isAuthenticated, authUser, secretRefreshToken, storedUser,
                   tokenRefreshTimer, signInPc, signOutPc, refreshRead,
                   signOutDone, authFrame>>

\* refreshToken() after storing the id token: store the refresh token, then
\* scheduleTokenRefresh (authState.tokenExpiry is not part of the model).
RefreshStore ==
    /\ refreshPc \in {"storeRefresh", "finish"}
    /\ refreshPc' = IF refreshPc = "storeRefresh" THEN "finish" ELSE "idle"
    /\ secretRefreshToken' = IF refreshPc = "storeRefresh" THEN TRUE
                             ELSE secretRefreshToken
    /\ tokenRefreshTimer' = IF refreshPc = "finish" THEN TRUE ELSE tokenRefreshTimer
    /\ UNCHANGED <<isAuthenticated, authUser, secretToken, storedUser, signInPc,
                   signOutPc, refreshRead, signOutDone, signInApplied, authFrame>>

\* The signOut() of refreshToken's catch after each await.
RefreshSignOut ==
    /\ refreshPc \in {"deleteRefresh", "clearUser", "signedOut"}
    /\ refreshPc' = CASE refreshPc = "deleteRefresh" -> "clearUser"
                      [] refreshPc = "clearUser" -> "signedOut"
                      [] OTHER -> "idle"
    /\ secretRefreshToken' = IF refreshPc = "deleteRefresh" THEN FALSE
                             ELSE secretRefreshToken
    /\ storedUser' = IF refreshPc = "clearUser" THEN FALSE ELSE storedUser
    /\ tokenRefreshTimer' = IF refreshPc = "signedOut" THEN FALSE ELSE tokenRefreshTimer
    /\ isAuthenticated' = IF refreshPc = "signedOut" THEN FALSE ELSE isAuthenticated
    /\ authUser' = IF refreshPc = "signedOut" THEN FALSE ELSE authUser
    /\ signOutDone' = IF refreshPc = "signedOut" THEN TRUE ELSE signOutDone
    /\ UNCHANGED <<secretToken, signInPc, signOutPc, refreshRead, signInApplied, authFrame>>

(***************************************************************************)
(* The suspended part of saveState, and the clear-data command             *)
(***************************************************************************)

storageFrame == <<running, session, lastActivity, keystrokeCount, events,
                  fileMetrics, updateTimer, currentFile, lastTextChangeTime,
                  now, nextId, calls, change, analysis>>

\* saveState resumed after saveEvents: saveSession when there is a session.
SaveSession ==
    /\ pendSession > 0
    /\ stored' = IF session # NoSession THEN [stored EXCEPT !.session = session]
                 ELSE stored
    /\ pendSession' = pendSession - 1
    /\ pendMetrics' = pendMetrics + 1
    /\ UNCHANGED <<clearPc, clearTime, storageFrame>>

\* saveState resumed after saveSession: saveFileMetrics, after which the call
\* is over.
SaveFileMetrics ==
    /\ pendMetrics > 0
    /\ stored' = [stored EXCEPT !.fileMetrics = fileMetrics]
    /\ pendMetrics' = pendMetrics - 1
    /\ UNCHANGED <<pendSession, clearPc, clearTime, storageFrame>>

\* The clear-data command once the user has confirmed: clearAll() up to its
\* first await (clearEvents has written the empty array).
ClearData(d) ==
    /\ clearPc = "idle"
    /\ Call(d)
    /\ stored' = [stored EXCEPT !.events = <<>>]
    /\ clearPc' = "session"
    /\ clearTime' = now'
    /\ UNCHANGED <<pendSession, pendMetrics, running, session, lastActivity,
                   keystrokeCount, events, fileMetrics, updateTimer, currentFile,
                   lastTextChangeTime, nextId, change, analysis>>

\* clearAll resumed: clearSession, clearFileMetrics, saveUploadQueue([]) (the
\* upload queue is not part of the model), one per step.
ClearStep ==
    /\ clearPc # "idle"
    /\ stored' = CASE clearPc = "session" -> [stored EXCEPT !.session = NoSession]
                   [] clearPc = "metrics" -> [stored EXCEPT !.fileMetrics = <<>>]
                   [] OTHER -> stored
    /\ clearPc' = CASE clearPc = "session" -> "metrics"
                    [] clearPc = "metrics" -> "queue"
                    [] OTHER -> "idle"
    /\ UNCHANGED <<pendSession, pendMetrics, clearTime, storageFrame>>

(***************************************************************************)
(* Specifications                                                          *)
(***************************************************************************)

Init ==
    InitTracker /\ InitDetectVars /\ InitBasicVars /\ InitSkillVars /\ InitGateVars
    /\ InitComplexVars /\ InitStructVars /\ InitAuthVars

Next ==
    \/ \E d \in OtherAdvances : Start(d) /\ UNCHANGED otherVars
    \/ \E d \in OtherAdvances : Stop(d) /\ UNCHANGED otherVars
    \/ \E doc \in Docs, delta \in DeltaShapes, d \in EditAdvances :
          HandleTextChange(doc, delta, d) /\ UNCHANGED otherVars
    \/ \E doc \in Docs \cup {NoFile}, d \in OtherAdvances :
          HandleEditorChange(doc, d) /\ UNCHANGED otherVars
    \/ \E doc \in Docs, d \in OtherAdvances :
          HandleDocumentOpen(doc, d) /\ UNCHANGED otherVars
    \/ \E doc \in Docs, d \in OtherAdvances :
          HandleDocumentClose(doc, d) /\ UNCHANGED otherVars
    \/ \E focused \in BOOLEAN, d \in OtherAdvances :
          HandleWindowStateChange(focused, d) /\ UNCHANGED otherVars
    \/ \E d \in TickAdvances : Tick(d) /\ UNCHANGED otherVars
    \/ \E doc \in Docs, length \in AnalyzeLengths, d \in OtherAdvances :
          AnalyzeFile(doc, length, d) /\ UNCHANGED otherVars

Spec == Init /\ [][Next]_vars

\* The tracker together with what globalState holds: the handlers on one
\* file, the suspended parts of saveState and the clear-data command.
\* Nothing of the tracker reads globalState after the constructor, which is
\* why Spec leaves these steps out.
NextStorage ==
    \/ \E d \in OtherAdvances : Start(d) /\ UNCHANGED otherVars
    \/ \E d \in OtherAdvances : Stop(d) /\ UNCHANGED otherVars
    \/ \E delta \in {x \in DeltaShapes : x.totalAdded = 1}, d \in OtherAdvances :
          HandleTextChange("a.ts", delta, d) /\ UNCHANGED otherVars
    \/ \E d \in OtherAdvances : HandleEditorChange("a.ts", d) /\ UNCHANGED otherVars
    \/ \E d \in OtherAdvances : HandleDocumentOpen("a.ts", d) /\ UNCHANGED otherVars
    \/ \E d \in OtherAdvances : HandleDocumentClose("a.ts", d) /\ UNCHANGED otherVars
    \/ \E d \in OtherAdvances : HandleWindowStateChange(TRUE, d) /\ UNCHANGED otherVars
    \/ \E d \in OtherAdvances : Tick(d) /\ UNCHANGED otherVars
    \/ \E d \in OtherAdvances : AnalyzeFile("a.ts", 100, d) /\ UNCHANGED otherVars
    \/ SaveSession /\ UNCHANGED otherVars
    \/ SaveFileMetrics /\ UNCHANGED otherVars
    \/ \E d \in OtherAdvances : ClearData(d) /\ UNCHANGED otherVars
    \/ ClearStep /\ UNCHANGED otherVars

InitOfStorage ==
    InitTracker /\ InitDetectVars /\ InitBasicVars /\ InitSkillVars /\ InitGateVars
    /\ InitComplexVars /\ InitStructVars /\ InitAuthVars

SpecStorage == InitOfStorage /\ [][NextStorage]_vars

\* What saveState left in globalState in an earlier run of the extension: a
\* session that opened a.ts and was stopped.
PreviousRun ==
    LET sess == [ id |-> 1, startTime |-> 1000, endTime |-> 1200,
                  totalDuration |-> 200, totalKeystrokes |-> 0,
                  totalPastes |-> 0, totalEdits |-> 0,
                  filesEdited |-> <<"a.ts">>, languagesUsed |-> <<"TypeScript">>,
                  codeAnalysesPerformed |-> 0, status |-> "stopped" ]
        active == [sess EXCEPT !.endTime = 0, !.totalDuration = 0,
                                !.filesEdited = <<>>, !.languagesUsed = <<>>,
                                !.status = "active"]
        ev1 == recordEvent(<<>>, active, 1000, "session_start", NoFile)
        ev2 == recordEvent(ev1, active, 1100, "file_open", "a.ts")
        ev3 == recordEvent(ev2, sess, 1200, "session_stop", NoFile)
    IN [ events |-> ev3, session |-> sess,
         fileMetrics |->
             [ensuredMetrics(<<>>, "a.ts", detectLanguage("a.ts"), 1100)
                EXCEPT !["a.ts"].openCount = 1] ]

\* The tracker constructed over the storage of the earlier run: loadState()
\* takes events, session and file metrics from globalState.
InitRestart ==
    /\ running = FALSE
    /\ session = PreviousRun.session
    /\ lastActivity = 0
    /\ keystrokeCount = 0
    /\ events = PreviousRun.events
    /\ fileMetrics = PreviousRun.fileMetrics
    /\ updateTimer = FALSE
    /\ currentFile = NoFile
    /\ lastTextChangeTime = 0
    /\ now = 100000
    /\ nextId = 2
    /\ calls = 0
    /\ change = NoChange
    /\ analysis = NoExtract
    /\ stored = PreviousRun
    /\ pendSession = 0
    /\ pendMetrics = 0
    /\ clearPc = "idle"
    /\ clearTime = 0

InitOfRestart ==
    InitRestart /\ InitDetectVars /\ InitBasicVars /\ InitSkillVars /\ InitGateVars
    /\ InitComplexVars /\ InitStructVars /\ InitAuthVars

SpecRestart == InitOfRestart /\ [][Next]_vars

NextAuth ==
    \/ SignIn
    \/ \E ok \in BOOLEAN : SignInResponse(ok)
    \/ HandleSuccessfulAuth
    \/ SignOut
    \/ SignOutStep
    \/ TimerFires
    \/ GetToken
    \/ RefreshGot
    \/ \E ok \in BOOLEAN : RefreshResponse(ok)
    \/ RefreshStore
    \/ RefreshSignOut

InitOfAuth ==
    InitTracker /\ InitDetectVars /\ InitBasicVars /\ InitSkillVars /\ InitGateVars
    /\ InitComplexVars /\ InitStructVars /\ InitAuthVars

SpecAuth == InitOfAuth /\ [][NextAuth]_vars

NextDetect == DetectPasteCall

InitOfDetect ==
    InitTracker /\ InitDetect /\ InitBasicVars /\ InitSkillVars /\ InitGateVars
    /\ InitComplexVars /\ InitStructVars /\ InitAuthVars

SpecDetect == InitOfDetect /\ [][NextDetect]_vars

NextBasic ==
    \/ \E line \in LinesOf(bmLangKey) : BasicMetricsLine(line)
    \/ BasicMetricsReturn

InitOfBasic ==
    InitTracker /\ InitDetectVars /\ InitBasic /\ InitSkillVars /\ InitGateVars
    /\ InitComplexVars /\ InitStructVars /\ InitAuthVars

SpecBasic == InitOfBasic /\ [][NextBasic]_vars

NextSkill ==
    \/ \E f \in FileRecords : FoldFile(f)
    \/ AnalyzeSkillReturn

InitOfSkill ==
    InitTracker /\ InitDetectVars /\ InitBasicVars /\ InitSkill /\ InitGateVars
    /\ InitComplexVars /\ InitStructVars /\ InitAuthVars

SpecSkill == InitOfSkill /\ [][NextSkill]_vars

NextGate == ShouldAnalyzeCall

InitOfGate ==
    InitTracker /\ InitDetectVars /\ InitBasicVars /\ InitSkillVars /\ InitGate
    /\ InitComplexVars /\ InitStructVars /\ InitAuthVars

SpecGate == InitOfGate /\ [][NextGate]_vars

NextComplexity ==
    \/ \E line \in ComplexityLines : ComplexityLine(line)
    \/ ComplexityReturn

InitOfComplexity ==
    InitTracker /\ InitDetectVars /\ InitBasicVars /\ InitSkillVars /\ InitGateVars
    /\ InitComplexity /\ InitStructVars /\ InitAuthVars

SpecComplexity == InitOfComplexity /\ [][NextComplexity]_vars

NextStructure ==
    \/ \E line \in StructureLines : StructureLine(line)
    \/ StructureReturn

InitOfStructure ==
    InitTracker /\ InitDetectVars /\ InitBasicVars /\ InitSkillVars /\ InitGateVars
    /\ InitComplexVars /\ InitStructure /\ InitAuthVars

SpecStructure == InitOfStructure /\ [][NextStructure]_vars

(***************************************************************************)
(* The paste classifier (checked under SpecDetect)                         *)
(***************************************************************************)

\* The decision rule of the specification, as a numbered list of conditions.
RuleMatches(k, chars, gap, lines) ==
    CASE k = 1 -> chars <= 30
      [] k = 2 -> lines >= 3 /\ gap < 50
      [] k = 3 -> chars > 300
      [] k = 4 -> chars > 150 /\ gap < 20
      [] k = 5 -> chars > 100 /\ gap < 10
      [] k = 6 -> chars > 50 /\ gap < 5
      [] OTHER -> TRUE

\* The first rule of 1..7 that matches.
FirstMatch(chars, gap, lines) ==
    CHOOSE k \in 1..7 :
        /\ RuleMatches(k, chars, gap, lines)
        /\ \A j \in 1..(k - 1) : ~RuleMatches(j, chars, gap, lines)

\* Rules 2 to 6 say paste; rules 1 and 7 say typing.
RuleSaysPaste(k) == k \in 2..6

DetectDone == dpPc = "done"

\* C1: for every charactersAdded, gap and linesAdded >= 0, detectPaste returns
\* the verdict of the first matching rule of the ordered rule list.
C1_FirstMatchRule ==
    DetectDone =>
        dpResult = RuleSaysPaste(FirstMatch(dpArgs.charactersAdded,
                                            dpArgs.timeSinceLastChange,
                                            dpArgs.linesAdded))

\* A call that rule 5 decides (rules 1 to 4 do not match).
C1_Witness ==
    /\ DetectDone
    /\ FirstMatch(dpArgs.charactersAdded, dpArgs.timeSinceLastChange,
                  dpArgs.linesAdded) = 5
    /\ dpResult = TRUE

\* C3 as stated: charactersAdded = 120 with a gap of 15ms is classified as
\* paste.
C3_Original ==
    (DetectDone /\ dpArgs.charactersAdded = 120 /\ dpArgs.timeSinceLastChange = 15)
        => dpResult = TRUE

\* C3, amended: charactersAdded = 120 with a gap of 15ms is classified as
\* paste exactly when linesAdded >= 3 (the multi-line rule), and as typing
\* otherwise.
C3_Amended ==
    (DetectDone /\ dpArgs.charactersAdded = 120 /\ dpArgs.timeSinceLastChange = 15)
        => (dpResult = (dpArgs.linesAdded >= 3))

\* 120 characters, 15ms, on one line: typing.
C3_Witness ==
    /\ DetectDone
    /\ dpArgs.charactersAdded = 120
    /\ dpArgs.timeSinceLastChange = 15
    /\ dpArgs.linesAdded = 0
    /\ dpResult = FALSE

\* C4: a delta with charactersAdded <= 30 is classified as typing for every
\* gap and every linesAdded.
C4_SmallIsTyping ==
    (DetectDone /\ dpArgs.charactersAdded <= 30) => dpResult = FALSE

\* 25 characters on 5 lines after 1ms: typing.
C4_Witness ==
    /\ DetectDone
    /\ dpArgs.charactersAdded = 25
    /\ dpArgs.timeSinceLastChange = 1
    /\ dpArgs.linesAdded = 5
    /\ dpResult = FALSE

\* C5: a delta with charactersAdded > 300 is classified as paste for every
\* gap and every linesAdded.
C5_LargeIsPaste ==
    (DetectDone /\ dpArgs.charactersAdded > 300) => dpResult = TRUE

\* 400 characters after ten seconds: paste.
C5_Witness ==
    /\ DetectDone
    /\ dpArgs.charactersAdded = 400
    /\ dpArgs.timeSinceLastChange = 10000
    /\ dpArgs.linesAdded = 0
    /\ dpResult = TRUE

\* C6: a delta with 30 < charactersAdded <= 300 and a gap of at least 50ms is
\* classified as typing, whatever linesAdded is.
C6_SlowMediumIsTyping ==
    (/\ DetectDone
     /\ dpArgs.charactersAdded > 30
     /\ dpArgs.charactersAdded <= 300
     /\ dpArgs.timeSinceLastChange >= 50) => dpResult = FALSE

\* 60 characters on 5 lines after 100ms: typing.
C6_Witness ==
    /\ DetectDone
    /\ dpArgs.charactersAdded = 60
    /\ dpArgs.timeSinceLastChange = 100
    /\ dpArgs.linesAdded = 5
    /\ dpResult = FALSE

\* C7: with the gap fixed at 0ms and linesAdded fixed, if a delta of c1
\* characters is classified as paste then so is every delta of c2 >= c1
\* characters.
C7_Monotone ==
    (DetectDone /\ dpArgs.timeSinceLastChange = 0 /\ dpResult = TRUE) =>
        \A c2 \in dpArgs.charactersAdded..(MaxChars + 1) :
            detectPaste(c2, 0, dpArgs.linesAdded) = TRUE

\* The smallest paste at gap 0 on one line (51 characters), with larger
\* deltas above it.
C7_Witness ==
    /\ DetectDone
    /\ dpArgs.timeSinceLastChange = 0
    /\ dpArgs.linesAdded = 0
    /\ dpArgs.charactersAdded = 51
    /\ dpResult = TRUE

(***************************************************************************)
(* The counters of the tracker (checked under Spec)                        *)
(***************************************************************************)

IsDelta(e) == e.type \in {"paste", "keystroke"}

\* The indices of the events recorded for handled deltas.
DeltaEvents == { i \in 1..Len(events) : IsDelta(events[i]) }

\* The event of the delta `change` describes: the last delta event.
LastDelta == CHOOSE i \in DeltaEvents : \A j \in DeltaEvents : j <= i

\* The earlier deltas on the file of the last delta.
EarlierOnSameFile ==
    { i \in DeltaEvents : i < LastDelta /\ events[i].file = change.file }

\* C2: the gap a delta on file F is classified with is the time since the
\* previous delta on the same file F, whatever deltas on other files came in
\* between.
C2_GapIsPerFile ==
    (change # NoChange /\ EarlierOnSameFile # {}) =>
        LET prev == CHOOSE i \in EarlierOnSameFile :
                        \A j \in EarlierOnSameFile : j <= i
        IN change.timeSinceLastChange = change.now - events[prev].timestamp

\* The counters of file f before a call (zero when the record is created by
\* the call).
PasteCountOf(fms, f) == IF f \in DOMAIN fms THEN fms[f].pasteCount ELSE 0
KeystrokeCountOf(fms, f) == IF f \in DOMAIN fms THEN fms[f].keystrokeCount ELSE 0

\* C8: handling one non-empty delta on file F adds exactly 1 to F.pasteCount
\* and to the session paste counter and leaves both keystroke counters alone
\* when it is classified as paste; it adds charactersAdded to F.keystrokeCount
\* and to the session keystroke counter (this.keystrokeCount) and leaves both
\* paste counters alone when it is classified as typing.
C8_CounterEffect ==
    [][ (change' # change) =>
          LET f == change'.file
              added == change'.totalAdded
          IN IF change'.isPaste
             THEN /\ fileMetrics'[f].pasteCount = PasteCountOf(fileMetrics, f) + 1
                  /\ session'.totalPastes = session.totalPastes + 1
                  /\ fileMetrics'[f].keystrokeCount = KeystrokeCountOf(fileMetrics, f)
                  /\ keystrokeCount' = keystrokeCount
             ELSE /\ fileMetrics'[f].keystrokeCount =
                         KeystrokeCountOf(fileMetrics, f) + added
                  /\ keystrokeCount' = keystrokeCount + added
                  /\ fileMetrics'[f].pasteCount = PasteCountOf(fileMetrics, f)
                  /\ session'.totalPastes = session.totalPastes ]_vars

\* A file that has taken a typed delta of 60 characters and then a paste of
\* 400.
C8_Witness ==
    /\ change # NoChange
    /\ change.isPaste
    /\ change.totalAdded = 400
    /\ change.file \in DOMAIN fileMetrics
    /\ fileMetrics[change.file].pasteCount = 1
    /\ fileMetrics[change.file].keystrokeCount = 60
    /\ keystrokeCount = 60
    /\ session.totalPastes = 1

\* C9: after every handled delta, the typingToTotalRatio of every tracked file
\* is keystrokeCount / (keystrokeCount + pasteCount) of its current counters,
\* and 0 when that denominator is 0.
C9_RatioOfCounters ==
    \A f \in DOMAIN fileMetrics :
        LET r == fileMetrics[f].typingToTotalRatio
            k == fileMetrics[f].keystrokeCount
            p == fileMetrics[f].pasteCount
        IN /\ r.den > 0
           /\ IF k + p = 0 THEN r.num = 0
              ELSE r.num * (k + p) = k * r.den

\* One file after a pure deletion (ratio 0 over an empty denominator), the
\* other after a typed delta and a paste (ratio strictly between 0 and 1).
C9_Witness ==
    \E f, g \in DOMAIN fileMetrics :
        /\ fileMetrics[f].editCount = 1
        /\ fileMetrics[f].keystrokeCount + fileMetrics[f].pasteCount = 0
        /\ fileMetrics[f].typingToTotalRatio.num = 0
        /\ change # NoChange
        /\ change.file = g
        /\ fileMetrics[g].keystrokeCount > 0
        /\ fileMetrics[g].pasteCount > 0
        /\ fileMetrics[g].typingToTotalRatio.num > 0
        /\ fileMetrics[g].typingToTotalRatio.num < fileMetrics[g].typingToTotalRatio.den

(***************************************************************************)
(* The line counts (checked under SpecBasic)                               *)
(***************************************************************************)

\* C10: the counts extractBasicMetrics returns satisfy
\* codeLines + commentLines + blankLines = totalLines, with codeLines >= 0.
C10_LineCountsAddUp ==
    bmPc = "done" =>
        /\ bmResult.codeLines + bmResult.commentLines + bmResult.blankLines
               = bmResult.totalLines
        /\ bmResult.codeLines >= 0

\* A text with a code line, a comment line and a blank line.
C10_Witness ==
    /\ bmPc = "done"
    /\ bmResult.totalLines = 3
    /\ bmResult.codeLines = 1
    /\ bmResult.commentLines = 1
    /\ bmResult.blankLines = 1

(***************************************************************************)
(* Claims about analyzeSkill (SpecSkill).  They are stated over the        *)
(* arguments of the call (the folded sums, the language table and the two  *)
(* times) and the returned record, without the operators of the scorer.    *)
(***************************************************************************)

SkillDone == skPc = "done"

SkScores == skResult.profile.categoryScores
SkRecs == skResult.recommendations
ScoreAt(i) == SkScores[i].score

\* The position (from 0) of category i when the five scores are put in
\* ascending, respectively descending, order and equal scores keep the order
\* of Categories.
AscendingPosition(i) ==
    Cardinality({ j \in 1..5 : \/ ScoreAt(j) < ScoreAt(i)
                               \/ ScoreAt(j) = ScoreAt(i) /\ j < i })
DescendingPosition(i) ==
    Cardinality({ j \in 1..5 : \/ ScoreAt(j) > ScoreAt(i)
                               \/ ScoreAt(j) = ScoreAt(i) /\ j < i })
CategoryAtDescending(p) == CHOOSE i \in 1..5 : DescendingPosition(i) = p

RecsFor(i) == { r \in 1..Len(SkRecs) : SkRecs[r].category = Categories[i] }
HighRecs == { r \in 1..Len(SkRecs) : SkRecs[r].priority = "high" }

\* typingToTotalRatio < 0.5, over the summed counters (the ratio is 0 when
\* nothing was typed or pasted).
TypingBelowHalf ==
    IF skSums.keystrokeCount + skSums.pasteCount > 0
    THEN 2 * skSums.keystrokeCount < skSums.keystrokeCount + skSums.pasteCount
    ELSE TRUE

\* Category i gets a recommendation.
Emitted(i) == ScoreAt(i) < 70 /\ (i = 1 => TypingBelowHalf)

\* s is the integer nearest to n / d (d > 0), halves upwards.
IsRound(s, n, d) == (2 * s - 1) * d <= 2 * n /\ 2 * n < (2 * s + 1) * d

\* What the three parts of C11 share: no recommendation for a score of 70 or
\* more, at most 5 recommendations, at most one per category.
RecsAreBounded ==
    /\ \A i \in 1..5 : ScoreAt(i) >= 70 => RecsFor(i) = {}
    /\ Len(SkRecs) <= 5
    /\ \A i \in 1..5 : Cardinality(RecsFor(i)) <= 1

\* C11 (as stated): whenever at least one category score is below 70 there
\* is exactly one recommendation of priority 'high'; no recommendation for a
\* category scoring 70 or more; at most 5 recommendations, at most one per
\* category.
C11_Original ==
    SkillDone =>
        /\ (\E i \in 1..5 : ScoreAt(i) < 70) => Cardinality(HighRecs) = 1
        /\ RecsAreBounded

\* C11 (amended): there is at most one recommendation of priority 'high', and
\* there is one exactly when the category that is first in the ascending
\* stable order scores below 70 and is not coding proficiency held back by
\* typingToTotalRatio >= 0.5; no recommendation for a category scoring 70 or
\* more; at most 5 recommendations, at most one per category.
C11_Amended ==
    SkillDone =>
        /\ Cardinality(HighRecs) <= 1
        /\ Cardinality(HighRecs) = 1
              <=> \E i \in 1..5 : AscendingPosition(i) = 0 /\ Emitted(i)
        /\ RecsAreBounded

\* Coding proficiency is the lowest score, below 70, with half or more of the
\* input typed: recommendations are returned, none of them 'high'.
C11_Witness ==
    /\ SkillDone
    /\ AscendingPosition(1) = 0
    /\ ScoreAt(1) < 70
    /\ ~TypingBelowHalf
    /\ Len(SkRecs) >= 1
    /\ HighRecs = {}

\* C12: a category other than coding proficiency gets a recommendation iff
\* its score is below 70, coding proficiency iff its score is below 70 and
\* typingToTotalRatio < 0.5; the priority of a recommendation is that of its
\* category's position in the ascending stable order of all five scores
\* (0 high, 1 medium, otherwise low).
C12_EmissionAndPriority ==
    SkillDone =>
        \A i \in 1..5 :
            /\ Cardinality(RecsFor(i)) = (IF Emitted(i) THEN 1 ELSE 0)
            /\ \A r \in RecsFor(i) :
                   SkRecs[r].priority =
                       (IF AscendingPosition(i) = 0 THEN "high"
                        ELSE IF AscendingPosition(i) = 1 THEN "medium"
                        ELSE "low")

\* The first recommendation is 'medium' because coding proficiency, first in
\* the order, is held back; a 'low' one follows.
C12_Witness ==
    /\ SkillDone
    /\ AscendingPosition(1) = 0
    /\ ScoreAt(1) < 70
    /\ ~TypingBelowHalf
    /\ Len(SkRecs) >= 2
    /\ SkRecs[1].priority = "medium"
    /\ SkRecs[2].priority = "low"

\* C13: each of the five category scores is an integer in 0..100;
\* overallScore is the rounded mean of the five scores and lies between the
\* smallest and the largest of them.
C13_ScoresInRange ==
    SkillDone =>
        /\ Len(SkScores) = 5
        /\ \A i \in 1..5 : ScoreAt(i) \in 0..100
        /\ IsRound(skResult.profile.overallScore,
                   ScoreAt(1) + ScoreAt(2) + ScoreAt(3) + ScoreAt(4) + ScoreAt(5), 5)
        /\ \E i \in 1..5 : ScoreAt(i) <= skResult.profile.overallScore
        /\ \E i \in 1..5 : ScoreAt(i) >= skResult.profile.overallScore

\* More than 10 edits per minute and more lines deleted than added: the two
\* scores that are floored at 0, next to a score of 100.
C13_Witness ==
    /\ SkillDone
    /\ skActive > 0
    /\ skSums.editCount * 60000 > 11 * skActive
    /\ skSums.linesAdded > 0
    /\ skSums.linesDeleted > 2 * skSums.linesAdded
    /\ ScoreAt(2) = 0
    /\ ScoreAt(4) = 0
    /\ ScoreAt(3) = 100

\* C14: when the summed linesAdded is 0 the code-quality score is 100,
\* whatever linesDeleted is.
C14_NoLinesAddedIsFullQuality ==
    SkillDone /\ skSums.linesAdded = 0 => ScoreAt(4) = 100

C14_Witness ==
    /\ SkillDone
    /\ skFiles > 0
    /\ skSums.linesAdded = 0
    /\ skSums.linesDeleted > 0
    /\ ScoreAt(4) = 100

\* C15: strengths are the first two and weaknesses the last two categories of
\* the descending order of the five scores in which equal scores keep the
\* order of Categories; no category is in both.
C15_StrengthsAndWeaknesses ==
    SkillDone =>
        /\ skResult.profile.strengths =
              << categoryToString(Categories[CategoryAtDescending(0)]),
                 categoryToString(Categories[CategoryAtDescending(1)]) >>
        /\ skResult.profile.weaknesses =
              << categoryToString(Categories[CategoryAtDescending(3)]),
                 categoryToString(Categories[CategoryAtDescending(4)]) >>
        /\ \A i, j \in 1..2 :
              skResult.profile.strengths[i] # skResult.profile.weaknesses[j]

\* Equal scores at both cuts: the second and third, and the third and fourth
\* of the descending order.
C15_Witness ==
    /\ SkillDone
    /\ ScoreAt(CategoryAtDescending(1)) = ScoreAt(CategoryAtDescending(2))
    /\ ScoreAt(CategoryAtDescending(2)) = ScoreAt(CategoryAtDescending(3))
    /\ ScoreAt(CategoryAtDescending(0)) > ScoreAt(CategoryAtDescending(1))

\* C16: coding proficiency = round(typingToTotalRatio x 100); problem solving
\* = max(0, round(100 - editsPerMinute x 10)) with editsPerMinute 0 when the
\* active time is 0; focus = round(active / (active + idle) x 100), 0 when
\* both are 0; language versatility = min(100, 20 x number of distinct
\* language tags).
C16_ScoreFormulas ==
    SkillDone =>
        /\ IF skSums.keystrokeCount + skSums.pasteCount > 0
           THEN IsRound(ScoreAt(1), 100 * skSums.keystrokeCount,
                        skSums.keystrokeCount + skSums.pasteCount)
           ELSE ScoreAt(1) = 0
        /\ IF skActive = 0 THEN ScoreAt(2) = 100
           ELSE IF 2 * (100 * skActive - 10 * 60000 * skSums.editCount) < 0 - skActive
           THEN ScoreAt(2) = 0
           ELSE IsRound(ScoreAt(2),
                        100 * skActive - 10 * 60000 * skSums.editCount, skActive)
        /\ IF skActive + skIdle > 0
           THEN IsRound(ScoreAt(3), 100 * skActive, skActive + skIdle)
           ELSE ScoreAt(3) = 0
        /\ LET tags == { skDist[i].language : i \in 1..Len(skDist) }
           IN ScoreAt(5) = (IF 20 * Cardinality(tags) > 100 THEN 100
                            ELSE 20 * Cardinality(tags))

\* Six language tags (the cap of 100 cuts 120), a typing ratio of 5/8 (62.5
\* rounds to 63) and a focus ratio of 6/7 (85.7 rounds to 86).
C16_Witness ==
    /\ SkillDone
    /\ Len(skDist) = 6
    /\ ScoreAt(5) = 100
    /\ skSums.keystrokeCount = 5 /\ skSums.pasteCount = 3
    /\ ScoreAt(1) = 63
    /\ skActive = 60000 /\ skIdle = 10000
    /\ ScoreAt(3) = 86

LevelOf(score) ==
    CASE score >= 80 -> "expert"
      [] score \in 60..79 -> "advanced"
      [] score \in 40..59 -> "intermediate"
      [] OTHER -> "beginner"

\* C17: every category score and the overall score have the level of the
\* breakpoints: 80 and more expert, 60..79 advanced, 40..59 intermediate,
\* below 40 beginner.
C17_Levels ==
    SkillDone =>
        /\ \A i \in 1..5 : SkScores[i].level = LevelOf(ScoreAt(i))
        /\ skResult.profile.overallLevel = LevelOf(skResult.profile.overallScore)

\* Scores on the three breakpoints and one just below each.
C17_Witness ==
    /\ SkillDone
    /\ \E i \in 1..5 : ScoreAt(i) = 80 /\ SkScores[i].level = "expert"
    /\ \E i \in 1..5 : ScoreAt(i) = 60 /\ SkScores[i].level = "advanced"
    /\ \E i \in 1..5 : ScoreAt(i) = 40 /\ SkScores[i].level = "intermediate"
    /\ \E i \in 1..5 : ScoreAt(i) < 40 /\ SkScores[i].level = "beginner"

(***************************************************************************)
(* Claim about shouldAnalyze (SpecGate).                                   *)
(***************************************************************************)

\* The language of the extension of the paths of AnalyzePaths, read from
\* EXTENSION_MAP.
CodeExtensionPaths == {"a.ts", "b.py", "M.TS", "n.go"}

\* C20: shouldAnalyze(path, length) is true exactly when the extension of
\* the path maps to a code language and 100 <= length <= 1048576; 99 and
\* 1048577 are rejected, 100 and 1048576 accepted.
C20_Eligibility ==
    gatePc = "done" =>
        /\ gateResult = (/\ gatePath \in CodeExtensionPaths
                         /\ 100 <= gateLength
                         /\ gateLength <= 1048576)
        /\ gatePath \in CodeExtensionPaths =>
              /\ gateLength \in {99, 1048577} => ~gateResult
              /\ gateLength \in {100, 1048576} => gateResult

\* A code file of exactly 100 characters is accepted.
C20_Witness ==
    /\ gatePc = "done"
    /\ gatePath = "n.go"
    /\ gateLength = 100
    /\ gateResult

(***************************************************************************)
(* Claims about extractStructuralMetrics (SpecStructure).                  *)
(***************************************************************************)

StructureDone == stPc = "done"

\* The width of the leading whitespace of a line.
IndentWidth(line) ==
    Cardinality({ k \in 1..Len(line) : \A j \in 1..k : line[j] \in {" ", "\t"} })

\* The elements of `lines` that start with whitespace.
IndentedLines == { i \in 1..Len(stInput) : IndentWidth(stInput[i]) > 0 }

UniformFourSpaces ==
    /\ IndentedLines # {}
    /\ \A i \in IndentedLines :
          /\ \A j \in 1..IndentWidth(stInput[i]) : stInput[i][j] = " "
          /\ IndentWidth(stInput[i]) % 4 = 0
    /\ \E i \in IndentedLines : IndentWidth(stInput[i]) = 4

\* C22: a file whose indented lines all use spaces in multiples of 4, the
\* smallest indent being 4, has indentationSize 4, indentationConsistency
\* 1.0 and indentationStyle 'spaces'.
C22_UniformFourSpaces ==
    StructureDone /\ UniformFourSpaces =>
        /\ stResult.indentationSize = 4
        /\ stResult.indentationConsistency = [num |-> 1, den |-> 1]
        /\ stResult.indentationStyle = "spaces"

\* Indents of 4 and of 8 next to a line without indent.
C22_Witness ==
    /\ StructureDone
    /\ UniformFourSpaces
    /\ \E i \in IndentedLines : IndentWidth(stInput[i]) = 8
    /\ \E i \in 1..Len(stInput) : i \notin IndentedLines
    /\ stResult.indentationSize = 4

(***************************************************************************)
(* Claims about extractComplexityMetrics (SpecComplexity).                 *)
(***************************************************************************)

ComplexityDone == cxPc = "done"

\* The number of non-overlapping occurrences of a keyword or operator in a
\* line: between word boundaries for a keyword of more than two letters,
\* anywhere for the short ones.
OccurrencesIn(line, keyword) ==
    IF Len(keyword) > 2 THEN wordMatches(trim(line), keyword, 1)
    ELSE literalMatches(trim(line), keyword, 1)

RECURSIVE OccurrencesUpTo(_, _)
\* The occurrences in the first n (line, keyword) pairs, lines first.
OccurrencesUpTo(lines, n) ==
    IF n = 0 THEN 0
    ELSE LET l == ((n - 1) \div Len(CONTROL_FLOW_KEYWORDS)) + 1
             k == ((n - 1) % Len(CONTROL_FLOW_KEYWORDS)) + 1
         IN OccurrencesIn(lines[l], CONTROL_FLOW_KEYWORDS[k])
              + OccurrencesUpTo(lines, n - 1)

\* C25: cyclomaticComplexity is 1 plus the number of non-overlapping
\* occurrences of the control-flow keywords and operators, summed over all
\* lines; a snippet with none of them (an empty one included) has 1.
C25_ComplexityCountsOccurrences ==
    ComplexityDone =>
        cxResult.cyclomaticComplexity =
            1 + OccurrencesUpTo(cxInput, Len(cxInput) * Len(CONTROL_FLOW_KEYWORDS))

\* '{' occurrences minus '}' occurrences of the first k lines.
RunningCounter(k) ==
    LET positions == UNION { { <<j, i>> : i \in 1..Len(cxInput[j]) } : j \in 1..k }
    IN Cardinality({ p \in positions : cxInput[p[1]][p[2]] = "{" })
       - Cardinality({ p \in positions : cxInput[p[1]][p[2]] = "}" })

\* C29: nestingDepth is the largest value the running counter has after a
\* line, and 0 when the counter never rises above 0; it is never negative.
C29_NestingIsRunningMaximum ==
    ComplexityDone =>
        LET reached == {0} \cup { RunningCounter(k) : k \in 1..Len(cxInput) }
        IN /\ cxResult.nestingDepth \in reached
           /\ \A v \in reached : v <= cxResult.nestingDepth
           /\ cxResult.nestingDepth >= 0

\* A closing brace before the opening one: the counter is -1, then 0.
C29_Witness ==
    /\ ComplexityDone
    /\ Len(cxInput) = 2
    /\ RunningCounter(1) < 0
    /\ RunningCounter(2) = 0
    /\ cxResult.nestingDepth = 0

(***************************************************************************)
(* Claim about the primary language (SpecSkill).                           *)
(***************************************************************************)

\* The tag that is most frequent and, among the most frequent, first in file
\* order ('unknown' without files).
FirstMostFrequent ==
    IF Len(skDist) = 0 THEN "unknown"
    ELSE LET i == CHOOSE i \in 1..Len(skDist) :
                      /\ \A j \in 1..Len(skDist) : skDist[j].count <= skDist[i].count
                      /\ \A j \in 1..(i - 1) : skDist[j].count < skDist[i].count
         IN skDist[i].language

\* C26: the primary language is a most frequent language tag, the one
\* encountered first when several tie; 'unknown' with no files.
C26_PrimaryIsFirstMostFrequent ==
    SkillDone =>
        extractBehavioralMetrics(skSums, skDist, skFiles, skActive, skIdle)
            .primaryLanguage = FirstMostFrequent

(***************************************************************************)
(* Claims about the line classification (SpecBasic).                       *)
(***************************************************************************)

\* The step is one iteration of the loop.
LineStep == bmPc = "loop" /\ bmLines' = bmLines + 1

\* C27: a blank line counts as blank and leaves the flag; inside a block a
\* non-blank line counts as comment and the flag clears iff the line matches
\* blockEnd; outside, a line matching blockStart counts as comment and sets
\* the flag iff the line without its first block-start marker does not match
\* blockEnd; otherwise a single-line-comment match counts as comment and
\* anything else as code.
C27_SinglePass ==
    [][ LineStep =>
          IF bmLast'.blank
          THEN /\ bmBlank' = bmBlank + 1 /\ bmComment' = bmComment
               /\ bmInBlock' = bmInBlock
          ELSE IF bmInBlock
          THEN /\ bmBlank' = bmBlank /\ bmComment' = bmComment + 1
               /\ bmInBlock' = ~bmLast'.blockEnd
          ELSE IF bmLast'.blockStart
          THEN /\ bmBlank' = bmBlank /\ bmComment' = bmComment + 1
               /\ bmInBlock' = ~bmLast'.restBlockEnd
          ELSE IF bmLast'.singleLine
          THEN /\ bmBlank' = bmBlank /\ bmComment' = bmComment + 1
               /\ bmInBlock' = FALSE
          ELSE /\ bmBlank' = bmBlank /\ bmComment' = bmComment
               /\ bmInBlock' = FALSE ]_vars

\* The first line opens and closes a block comment: the flag is not set.
C27_Witness ==
    /\ bmLines = 1
    /\ bmLast.blockStart
    /\ bmLast.restBlockEnd
    /\ bmComment = 1
    /\ ~bmInBlock

\* C28 (as stated): after a block-comment start that is not terminated,
\* every further line is classified as comment.
C28_Original ==
    [][ LineStep /\ bmInBlock /\ bmInBlock' =>
          bmComment' = bmComment + 1 /\ bmBlank' = bmBlank ]_vars

\* C28 (amended): after a block-comment start that is not terminated, every
\* further line that is not blank is classified as comment and every blank
\* one as blank; none is classified as code.
C28_Amended ==
    [][ LineStep /\ bmInBlock /\ bmInBlock' =>
          IF bmLast'.blank
          THEN bmBlank' = bmBlank + 1 /\ bmComment' = bmComment
          ELSE bmComment' = bmComment + 1 /\ bmBlank' = bmBlank ]_vars

\* A blank line was the last line, inside a block comment that is still
\* open at the end of the file.
C28_Witness ==
    /\ bmPc = "done"
    /\ bmInBlock
    /\ bmLast.blank
    /\ bmResult.blankLines >= 1
    /\ bmResult.commentLines >= 1
    /\ bmResult.codeLines = 0

(***************************************************************************)
(* Claims about the file metrics, analyzeFile and idle events (Spec).      *)
(***************************************************************************)

\* The events the step appends.
NewEvents == { events'[i] : i \in (Len(events) + 1)..Len(events') }

\* The step holds a tracked interaction with file f: an edit, a switch to
\* it, or its opening.
InteractionWith(f) ==
    \E e \in NewEvents :
        e.file = f /\ e.type \in {"keystroke", "paste", "file_switch", "file_open"}

\* C23: a record of fileMetrics is created at the first tracked interaction
\* with the file (edit, switch-to or open); no operation removes a record,
\* and keystrokeCount, pasteCount, editCount, linesAdded, linesDeleted and
\* the switch and open counts never decrease.
C23_RecordsPersist ==
    [][ /\ \A f \in DOMAIN fileMetrics :
              /\ f \in DOMAIN fileMetrics'
              /\ fileMetrics'[f].keystrokeCount >= fileMetrics[f].keystrokeCount
              /\ fileMetrics'[f].pasteCount >= fileMetrics[f].pasteCount
              /\ fileMetrics'[f].editCount >= fileMetrics[f].editCount
              /\ fileMetrics'[f].linesAdded >= fileMetrics[f].linesAdded
              /\ fileMetrics'[f].linesDeleted >= fileMetrics[f].linesDeleted
              /\ fileMetrics'[f].switchToCount >= fileMetrics[f].switchToCount
              /\ fileMetrics'[f].switchFromCount >= fileMetrics[f].switchFromCount
              /\ fileMetrics'[f].openCount >= fileMetrics[f].openCount
        /\ \A f \in Files :
              f \notin DOMAIN fileMetrics =>
                  (f \in DOMAIN fileMetrics' <=> InteractionWith(f)) ]_vars

\* A record created in the first session, with its counters, is there in the
\* second session, after stop() and start().
C23_Witness ==
    /\ running
    /\ session.id = 2
    /\ \E f \in DOMAIN fileMetrics : fileMetrics[f].editCount >= 1

\* The deltas on the analysed file delivered before the analysis.
DeltasBeforeAnalysis ==
    { i \in 1..Len(events) :
        /\ events[i].file = analysis.file
        /\ events[i].type \in {"keystroke", "paste"}
        /\ events[i].timestamp < analysis.now }

\* C24: the counters analyzeFile passes to extract hold every delta on the
\* file delivered so far, applied completely: the classification counters,
\* editCount, the typing ratio and the active time belong to the same deltas.
C24_NoTornCounters ==
    analysis # NoExtract /\ analysis.trackingMetrics # NoExtract =>
        LET m == analysis.trackingMetrics
            total == m.keystrokeCount + m.pasteCount
        IN /\ m.editCount = Cardinality(DeltasBeforeAnalysis)
           /\ m.pasteCount =
                 Cardinality({ i \in DeltasBeforeAnalysis : events[i].type = "paste" })
           /\ m.keystrokeCount > 0 =>
                 \E i \in DeltasBeforeAnalysis : events[i].type = "keystroke"
           /\ IF total > 0
              THEN m.typingToTotalRatio.num * total
                       = m.typingToTotalRatio.den * m.keystrokeCount
              ELSE m.typingToTotalRatio = Zero
           /\ \A i \in DeltasBeforeAnalysis : events[i].timestamp <= m.lastActive
           /\ DeltasBeforeAnalysis # {} =>
                 \E i \in DeltasBeforeAnalysis : events[i].timestamp = m.lastActive
           /\ m.activeTimeMs <= m.totalTimeMs

\* A file is analysed after a typed and a pasted delta.
C24_Witness ==
    /\ analysis # NoExtract
    /\ analysis.trackingMetrics # NoExtract
    /\ analysis.trackingMetrics.editCount = 2
    /\ analysis.trackingMetrics.pasteCount = 1
    /\ analysis.trackingMetrics.keystrokeCount > 0

\* C30: when activity is marked while the last recorded event is an
\* IDLE_START (the tracker is idle and nothing happened since), the step
\* records an IDLE_END.
C30_IdleEndOnResume ==
    [][ /\ Len(events) > 0
        /\ events[Len(events)].type = "idle_start"
        /\ lastActivity' # lastActivity
        => \E e \in NewEvents : e.type = "idle_end" ]_vars

(***************************************************************************)
(* Claims about idle events, sessions and the counters (Spec, SpecRestart) *)
(***************************************************************************)

\* C31: in one idle period (markActivity has not run since the earlier
\* IDLE_START, and no session was started since) tick records at most one
\* IDLE_START, whatever other events were recorded in between.
C31_OneIdleStartPerPeriod ==
    [][ (\E e \in NewEvents : e.type = "idle_start") =>
          ~ \E i \in 1..Len(events) :
                /\ events[i].type = "idle_start"
                /\ events[i].timestamp > lastActivity ]_vars

\* The step is start() on a running tracker or stop() on a stopped one.
RedundantStartOrStop ==
    \/ running /\ \E d \in OtherAdvances : Start(d)
    \/ ~running /\ \E d \in OtherAdvances : Stop(d)

\* C32: start() while running and stop() while not running change neither
\* the session, the events, the file metrics, the timer nor what is stored;
\* the timer is set exactly while the tracker runs, and the session is
\* active exactly while the tracker runs.
C32_RedundantStartStop ==
    [][ /\ RedundantStartOrStop =>
              UNCHANGED <<running, session, lastActivity, keystrokeCount, events,
                          fileMetrics, updateTimer, currentFile, nextId, storageVars>>
        /\ running' <=> updateTimer'
        /\ session' # NoSession => (session'.status = "active" <=> running') ]_vars

\* A third call after start() and stop() that changed nothing: stop() once
\* more among them.
C32_Witness ==
    /\ ~running
    /\ calls = 3
    /\ Len(events) = 2
    /\ session # NoSession
    /\ session.status = "stopped"
    /\ ~updateTimer

\* C33: analyzeFile on a file that fails shouldAnalyze changes nothing: no
\* event, no file or session counter, no extraction and nothing saved.
C33_SkippedAnalysisIsNoOp ==
    [][ \A doc \in Docs, length \in AnalyzeLengths :
          /\ ~shouldAnalyze(doc, length)
          /\ \E d \in OtherAdvances : AnalyzeFile(doc, length, d)
          => UNCHANGED <<running, session, lastActivity, keystrokeCount, events,
                         fileMetrics, updateTimer, currentFile, lastTextChangeTime,
                         nextId, change, analysis, storageVars>> ]_vars

\* A running session whose second call changed nothing: an analyzeFile on a
\* file that is not eligible among them.
C33_Witness ==
    /\ running
    /\ calls = 2
    /\ Len(events) = 1
    /\ analysis = NoExtract
    /\ pendSession = 1
    /\ now = 100200

\* C34: for every session id SESSION_START is the first event carrying it,
\* and after SESSION_STOP no event carries that id or the id 'unknown'.
C34_EventsBracketed ==
    \A i \in 1..Len(events) :
        /\ (events[i].sessionId # 0
            /\ \A j \in 1..(i - 1) : events[j].sessionId # events[i].sessionId)
           => events[i].type = "session_start"
        /\ events[i].type = "session_stop" =>
               \A j \in (i + 1)..Len(events) :
                   events[j].sessionId \notin {events[i].sessionId, 0}

\* C35: every file with a delta event of the session is in the session's
\* filesEdited, and its language in languagesUsed.
C35_EditedFilesListed ==
    session # NoSession =>
        \A i \in DeltaEvents :
            events[i].sessionId = session.id =>
                /\ Includes(session.filesEdited, events[i].file)
                /\ Includes(session.languagesUsed, detectLanguage(events[i].file))

\* The delta events recorded for file f.
DeltaEventsOn(f) == { i \in DeltaEvents : events[i].file = f }

\* C36: for every file editCount is its number of KEYSTROKE and PASTE events
\* and pasteCount its number of PASTE events, hence pasteCount <= editCount;
\* totalEdits of the session is the number of KEYSTROKE and PASTE events
\* carrying its id.
C36_CountsMatchEvents ==
    /\ \A f \in DOMAIN fileMetrics :
          /\ fileMetrics[f].editCount = Cardinality(DeltaEventsOn(f))
          /\ fileMetrics[f].pasteCount =
                 Cardinality({ i \in DeltaEventsOn(f) : events[i].type = "paste" })
          /\ fileMetrics[f].pasteCount <= fileMetrics[f].editCount
    /\ session # NoSession =>
          session.totalEdits =
              Cardinality({ i \in DeltaEvents : events[i].sessionId = session.id })

\* A typed delta on one file and a pasted one on the other, in one session.
C36_Witness ==
    /\ session # NoSession
    /\ session.totalEdits = 2
    /\ \E f, g \in DOMAIN fileMetrics :
          /\ f # g
          /\ fileMetrics[f].editCount = 1 /\ fileMetrics[f].pasteCount = 1
          /\ fileMetrics[g].editCount = 1 /\ fileMetrics[g].pasteCount = 0

\* C37: switchToCount - switchFromCount is 1 for the current file and 0 for
\* every other file.
C37_SwitchBalance ==
    \A f \in DOMAIN fileMetrics :
        fileMetrics[f].switchToCount - fileMetrics[f].switchFromCount
            = IF f = currentFile THEN 1 ELSE 0

\* The editor went to one file and then to the other.
C37_Witness ==
    /\ currentFile \in DOMAIN fileMetrics
    /\ fileMetrics[currentFile].switchToCount = 1
    /\ \E f \in DOMAIN fileMetrics :
          /\ f # currentFile
          /\ fileMetrics[f].switchToCount = 1
          /\ fileMetrics[f].switchFromCount = 1

(***************************************************************************)
(* Claim about the clear-data command (SpecStorage).                       *)
(***************************************************************************)

\* C38: once the clear-data command is over, globalState holds nothing
\* collected before it: no event recorded, no session started and no file
\* first seen before clearAll was called.
C38_ClearedDataStaysCleared ==
    clearTime > 0 /\ clearPc = "idle" =>
        /\ \A i \in 1..Len(stored.events) : stored.events[i].timestamp > clearTime
        /\ stored.session # NoSession => stored.session.startTime > clearTime
        /\ \A f \in DOMAIN stored.fileMetrics :
               stored.fileMetrics[f].firstSeen > clearTime

(***************************************************************************)
(* Claim about signOut and refreshToken (SpecAuth).                        *)
(***************************************************************************)

\* No signOut, neither the command's nor the one of refreshToken's catch, is
\* under way.
NoSignOutRunning ==
    /\ signOutPc = "idle"
    /\ refreshPc \notin {"deleteRefresh", "clearUser", "signedOut"}

\* C39: after a signOut has completed, with no sign-in succeeding or being
\* applied since it began, the user is not authenticated, the secret storage
\* holds neither token and no refresh timer is pending, whatever a
\* refreshToken call that was in flight does.
C39_SignedOutInFull ==
    /\ signOutDone
    /\ ~signInApplied
    /\ signInPc \in {"idle", "fetch"}
    /\ NoSignOutRunning
    => /\ ~isAuthenticated
       /\ ~secretToken
       /\ ~secretRefreshToken
       /\ ~tokenRefreshTimer

====
